---- MODULE Spec2Model ----
(***************************************************************************)
(* strava-stats-msrvc: the compaction engine (compact.py), the             *)
(* rate-budgeted enrichment loop (enrich.py), the pull (pull.py) and the   *)
(* token store (token_store.py) as state machines.                         *)
(*                                                                         *)
(*   SpecDedup    shard sets drawn from bounded sets; fault-free runs of   *)
(*                compact.main (rank-and-select, then the swap).           *)
(*   SpecCompact  compact.main step by step, every step may raise.         *)
(*   SpecRate     RateBudget under arbitrary server reports.               *)
(*   SpecEnrich   the fetch loop of enrich.run.                            *)
(*   SpecRestart  enrich.run killed and started again.                     *)
(*   SpecBacklog  select_backlog_ids over bounded candidate sets.          *)
(*   SpecUpsert   upsert_detail as one call; SpecUpsertSteps statement by  *)
(*                statement.                                               *)
(*   SpecToken    the refresh-token exchange of pull and enrich.           *)
(*   SpecPull     the shard writes of pull.main.                           *)
(*   SpecSource   where select_backlog_ids takes its candidates from.      *)
(*   SpecRank     the ranking chain on two rows of one activity.           *)
(*   SpecKey      the choice of the deduplication key.                     *)
(*   SpecReport   RateBudget under well-formed server reports.             *)
(*   SpecPace     the fetch loop against a counting server and a clock.    *)
(*   SpecPlan     enrich.run up to the loop, with the token exchange.      *)
(*   SpecLive     the fetch loop under fairness, 429 the only failure.     *)
(***************************************************************************)
EXTENDS Integers, Sequences, FiniteSets, TLC

VARIABLES
    \* ---- compact.py
    cols,        \* column names found in the shards (compact.py:72)
    shards,      \* rows of data/activities/*.parquet, each with its source_file
    silver,      \* SILVER_DIR: [exists, rows]
    staging,     \* this run's staging directory: [exists, rows]
    backup,      \* this run's backup directory: [exists, rows]
    gold,        \* table gold.strava_activities: [exists, rows]
    orphans,     \* TRUE when a staging directory of an earlier run is left
    cpc,         \* position inside compact.main
    cerr,        \* the exception that leaves compact.main ("none" when none)
    failed,      \* history: the steps of this run that raised
    prior,       \* history: SILVER_DIR as the running/last run found it
    dedup,       \* history: the _dedup view of the running/last run
    runs,        \* completed fault-free runs (SpecDedup)
    prevSilver,  \* history: SILVER_DIR after the previous fault-free run
    crashed,     \* history: TRUE once a run of compact.main was killed
    \* ---- enrich.py
    budget,      \* the RateBudget object: limits, usage and cushions
    backlog,     \* run(): the list select_backlog_ids returned
    i,           \* run(): cursor into backlog (0-based, as in the code)
    processed,   \* run(): activities fetched and persisted
    max_calls,   \* --max-calls, NULL when not given
    sleep_floor, \* --sleep-floor-seconds
    dry_run,     \* --dry-run
    epc,         \* position of run()
    raw,         \* ids with a raw detail JSON file under data/activities_details
    details,     \* ids with a row in the activity_details table
    last,        \* history: the last detail call (id, status, delay the server stated)
    pause,       \* history: the last sleep of the fetch loop
    activities,  \* the candidate rows select_backlog_ids reads: [id, start_date]
    eruns,       \* runs of enrich.run started so far
    pending,     \* history: ids that had a raw file and no detail row when
                 \* the running run began
    store,       \* the tables upsert_detail writes: parents, metric, standard,
                 \* efforts (sets of rows)
    payload,     \* the payload upsert_detail was last called with
    upc,         \* position of upsert_detail: [phase, k]
    now,         \* NOW() of the database: one tick per upsert_detail call
    hist,        \* history: the parent content of payload.id before the call,
                 \* and whether the call repeats the payload before it
    \* ---- token_store.py, pull.refresh_access_token, enrich.get_access_token
    tstore,      \* the refresh token in the credential store file
    tserver,     \* the refresh token the OAuth server accepts
    tpc,         \* position of the token refresh: [caller, at]
    tresp,       \* refresh_token of the last token response, NULL when absent
    \* ---- pull.py
    pfiles,      \* data/activities/*.parquet as pull writes them: [name, rows]
    pclock,      \* wall clock of pull, in whole seconds
    pwrites,     \* history: non-empty shard writes so far
    ppc,         \* position of pull.main
    \* ---- the DuckDB catalog besides gold.strava_activities
    compat,      \* TRUE when the view activities exists (migrate_activities_view)
    source,      \* what select_backlog_ids last took its candidates from,
                 \* and whether the canonical table and the view activities
                 \* existed then
    \* ---- the rate-limit server and the wall clock of enrich.py
    reported,    \* history: the values of the last report handed to
                 \* update_from_headers
    server,      \* the usage and limits the API server holds for the athlete
    calls,       \* history: detail calls issued by the running run
    clock,       \* utc_now(), in seconds since midnight of day 0
    boundary     \* history: the quarter hour the last 429 sleep aimed at

compactVars == <<cols, shards, silver, staging, backup, gold, orphans, cpc,
                 cerr, failed, prior, dedup, runs, prevSilver, crashed>>

rateVars == <<budget>>
restartVars == <<activities, eruns, pending>>
upsertVars == <<store, payload, upc, now, hist>>
tokenVars == <<tstore, tserver, tpc, tresp>>
pullVars == <<pfiles, pclock, pwrites, ppc>>
catalogVars == <<compat, source>>
reportVars == <<reported>>
quotaVars == <<server, calls>>
clockVars == <<clock, boundary>>
serviceVars == <<tokenVars, pullVars, catalogVars, reportVars, quotaVars,
                 clockVars>>
enrichVars == <<backlog, i, processed, max_calls, sleep_floor, dry_run, epc, raw,
                details, last, pause, restartVars, upsertVars, serviceVars>>

vars == <<compactVars, rateVars, enrichVars>>

-----------------------------------------------------------------------------
(* Bounds and value sets of the model.                                      *)

MaxRows == 3                 \* rows in a drawn shard set
MaxRuns == 2                 \* fault-free runs in SpecDedup
MaxReport == 2               \* largest limit or usage the server reports
MaxBacklog == 2              \* longest backlog of an enrichment run

NULL == 0 - 1                \* SQL NULL / Python None in an integer column
Ids == {41, 42}
Athletes == {7, 8}
Stamps == {1, 2, 3}          \* timestamps after 1970-01-01, in order
ResourceStates == {2, 3}
Ingests == {1, 2}
Polylines == {NULL, 1}       \* summary_polyline: absent, or some encoded line
KudosCounts == {0, 1}        \* a column that is not part of key or ordering
Files == {1, 2, 3}           \* shard file names, in lexicographic order

\* 1970-01-01, the COALESCE default of the timestamp orderings
Epoch == 0

MissingDir == [exists |-> FALSE, rows |-> {}]
Dir(rs) == [exists |-> TRUE, rows |-> rs]

-----------------------------------------------------------------------------
(* Shards: what pull.py lands and read_parquet(..., filename=true) reads.   *)

\* The schemas the shards of a model run may have.
Schemas ==
    { {"id", "updated_at"}, {"id"} }

\* A row of _all: a column that the schema lacks is NULL.
RowDomain(c) ==
    [ id               : IF "id" \in c THEN Ids ELSE {NULL},
      athlete_id       : IF "athlete_id" \in c THEN Athletes ELSE {NULL},
      updated_at       : IF "updated_at" \in c THEN Stamps \cup {NULL} ELSE {NULL},
      resource_state   : IF "resource_state" \in c THEN ResourceStates ELSE {NULL},
      ingestion_ts     : IF "ingestion_ts" \in c THEN Ingests ELSE {NULL},
      summary_polyline : IF "summary_polyline" \in c THEN Polylines ELSE {NULL},
      kudos_count      : KudosCounts,
      source_file      : Files ]

RECURSIVE SetsUpTo(_, _)
SetsUpTo(D, n) ==
    IF n = 0 THEN {{}}
    ELSE LET P == SetsUpTo(D, n - 1)
         IN  P \cup { s \cup {r} : s \in P, r \in D }

-----------------------------------------------------------------------------
(* compact.main, lines 71-118: key inference and rank-and-select.           *)

has(c, name) == name \in c

\* The value of the PARTITION BY expression for a row.
DedupeKeyShardOnly(c, r) == <<r.source_file>>
DedupeKeyIdFirst(c, r) ==
    IF has(c, "id") THEN <<r.id>> ELSE <<r.source_file>>
DedupeKey(c, r) ==
    IF has(c, "athlete_id") /\ has(c, "id") THEN <<r.athlete_id, r.id>>
    ELSE IF has(c, "id") THEN <<r.id>>
    ELSE <<r.source_file>>

Coalesce(v, d) == IF v = NULL THEN d ELSE v
NotNull(v) == IF v = NULL THEN 0 ELSE 1

\* order_parts: one sort value per ORDER BY term, every term DESC (NULLS LAST,
\* which NULL = -1 below every value gives).
OrderPartsOldestFirst(c, r) ==
    (IF has(c, "updated_at") THEN <<0 - Coalesce(r.updated_at, Epoch)>> ELSE <<>>)
    \o (IF has(c, "resource_state") THEN <<r.resource_state>> ELSE <<>>)
    \o (IF has(c, "ingestion_ts") THEN <<Coalesce(r.ingestion_ts, Epoch)>> ELSE <<>>)
    \o (IF has(c, "summary_polyline") THEN <<NotNull(r.summary_polyline)>> ELSE <<>>)
    \o <<r.source_file>>
OrderParts(c, r) ==
    (IF has(c, "updated_at") THEN <<Coalesce(r.updated_at, Epoch)>> ELSE <<>>)
    \o (IF has(c, "resource_state") THEN <<r.resource_state>> ELSE <<>>)
    \o (IF has(c, "ingestion_ts") THEN <<Coalesce(r.ingestion_ts, Epoch)>> ELSE <<>>)
    \o (IF has(c, "summary_polyline") THEN <<NotNull(r.summary_polyline)>> ELSE <<>>)
    \o <<r.source_file>>

\* a sorts strictly before b under ORDER BY ... DESC (lexicographic).
RECURSIVE SortsBefore(_, _)
SortsBefore(a, b) ==
    IF a = <<>> THEN FALSE
    ELSE IF Head(a) # Head(b) THEN Head(a) > Head(b)
    ELSE SortsBefore(Tail(a), Tail(b))

Group(c, rs, k) == { r \in rs : DedupeKey(c, r) = k }
KeysOf(c, rs) == { DedupeKey(c, r) : r \in rs }

\* The rows ROW_NUMBER() may number 1 in a key group: those no row sorts
\* before.  SQL leaves the order of rows that tie on every term open.
RankOne(c, rs, k) ==
    { r \in Group(c, rs, k) :
        \A s \in Group(c, rs, k) : ~SortsBefore(OrderParts(c, s), OrderParts(c, r)) }

\* Every content the _dedup view can have: one rank-1 row per key group.
RECURSIVE PickPerKey(_, _, _)
PickPerKey(c, rs, ks) ==
    IF ks = {} THEN {{}}
    ELSE LET k == CHOOSE x \in ks : TRUE
         IN  { s \cup {r} : s \in PickPerKey(c, rs, ks \ {k}),
                            r \in RankOne(c, rs, k) }
DedupOutcomes(c, rs) == PickPerKey(c, rs, KeysOf(c, rs))

-----------------------------------------------------------------------------
(* enrich.py: header parsing and RateBudget.                                *)
(* A header value is modelled as the list str.split(",") makes of it, each  *)
(* part a sequence of characters; the absent header is the empty string,    *)
(* whose split is one empty part.                                           *)

DigitChars == <<"0", "1", "2", "3", "4", "5", "6", "7", "8", "9">>
IsDigit(ch) == \E k \in 1..10 : DigitChars[k] = ch
DigitOf(ch) == (CHOOSE k \in 1..10 : DigitChars[k] = ch) - 1

\* str(n) for n >= 0: what the server writes into a header.
RECURSIVE ToDecimal(_)
ToDecimal(n) ==
    IF n < 10 THEN <<DigitChars[n + 1]>>
    ELSE ToDecimal(n \div 10) \o <<DigitChars[(n % 10) + 1]>>

\* int(s) for a string of digits with an optional sign; ok = FALSE where
\* int() raises ValueError.
RECURSIVE DigitsValue(_, _)
DigitsValue(s, acc) ==
    IF s = <<>> THEN acc ELSE DigitsValue(Tail(s), 10 * acc + DigitOf(Head(s)))
ParseInt(s) ==
    LET neg  == s # <<>> /\ Head(s) = "-"
        body == IF neg THEN Tail(s) ELSE s
    IN  IF body = <<>> \/ \E k \in 1..Len(body) : ~IsDigit(body[k])
          THEN [ok |-> FALSE, val |-> 0]
          ELSE [ok |-> TRUE,
                val |-> IF neg THEN 0 - DigitsValue(body, 0) ELSE DigitsValue(body, 0)]

AbsentHeader == << <<>> >>
HeaderOf(a, b) == <<ToDecimal(a), ToDecimal(b)>>

\* parse_limit_header, lines 64-72.
parse_limit_header(v) ==
    IF Len(v) # 2 THEN <<0, 0>>
    ELSE IF ~ParseInt(v[1]).ok \/ ~ParseInt(v[2]).ok THEN <<0, 0>>
    ELSE <<ParseInt(v[1]).val, ParseInt(v[2]).val>>

DefaultLimit15 == 100
DefaultLimitDay == 1000
DefaultCushion == 10
DefaultSleepFloor == 5
DefaultRetrySeconds == 60

\* RateBudget.__init__, lines 78-84.
RateBudget(c15, cday) ==
    [ limit_15 |-> DefaultLimit15, limit_day |-> DefaultLimitDay,
      used_15 |-> 0, used_day |-> 0,
      cushion_15 |-> c15, cushion_day |-> cday ]

\* RateBudget.update_from_headers, lines 86-92.
update_from_headers_either_limit(b, hLimit, hUsage) ==
    LET lim == parse_limit_header(hLimit)
        use == parse_limit_header(hUsage)
        b1  == IF lim[1] # 0 \/ lim[2] # 0
                 THEN [b EXCEPT !.limit_15 = lim[1], !.limit_day = lim[2]]
                 ELSE b
    IN  IF use[1] # 0 \/ use[2] # 0
          THEN [b1 EXCEPT !.used_15 = use[1], !.used_day = use[2]]
          ELSE b1
update_from_headers(b, hLimit, hUsage) ==
    LET lim == parse_limit_header(hLimit)
        use == parse_limit_header(hUsage)
        b1  == IF lim[1] # 0 /\ lim[2] # 0
                 THEN [b EXCEPT !.limit_15 = lim[1], !.limit_day = lim[2]]
                 ELSE b
    IN  IF use[1] # 0 \/ use[2] # 0
          THEN [b1 EXCEPT !.used_15 = use[1], !.used_day = use[2]]
          ELSE b1

\* RateBudget.would_exceed_next_call, lines 94-99 (the boolean of the pair).
would_exceed_next_call(b) ==
    IF b.limit_15 # 0 /\ (b.used_15 + 1) > (b.limit_15 - b.cushion_15) THEN TRUE
    ELSE IF b.limit_day # 0 /\ (b.used_day + 1) > (b.limit_day - b.cushion_day) THEN TRUE
    ELSE FALSE

-----------------------------------------------------------------------------
(* The state before anything has run.                                       *)

\* No compaction has run: data/ holds no output directory and no table.
CompactAtRest ==
    /\ silver = MissingDir
    /\ staging = MissingDir
    /\ backup = MissingDir
    /\ gold = MissingDir
    /\ orphans = FALSE
    /\ cpc = "idle"
    /\ cerr = "none"
    /\ failed = {}
    /\ prior = MissingDir
    /\ dedup = {}
    /\ runs = 0
    /\ prevSilver = MissingDir
    /\ crashed = FALSE

NoCall == [aid |-> NULL, status |-> 0, delay |-> NULL]
NoPause == [kind |-> "none", secs |-> 0]

\* A child collection of a payload: the key is absent (or null), or it
\* holds a list.
NoList == [present |-> FALSE, items |-> <<>>]
Delivered(l) == [present |-> TRUE, items |-> l]

EmptyStore == [parents |-> {}, metric |-> {}, standard |-> {}, efforts |-> {}]
NoPayload ==
    [id |-> NULL, name |-> NULL, total_photo_count |-> NULL,
     photo_count |-> NULL, splits_metric |-> NoList,
     splits_standard |-> NoList, segment_efforts |-> NoList]
Idle == [phase |-> "idle", k |-> 0]
NoHist == [before |-> {}, repeat |-> FALSE]

\* upsert_detail has not been called; the tables of the DDL are empty.
UpsertAtRest ==
    /\ store = EmptyStore
    /\ payload = NoPayload
    /\ upc = Idle
    /\ now = 0
    /\ hist = NoHist

\* The credential store holds the refresh token the server accepts; no
\* refresh is under way.
NoRefresh == [caller |-> "none", at |-> "idle"]
TokenAtRest ==
    /\ tstore = 1
    /\ tserver = 1
    /\ tpc = NoRefresh
    /\ tresp = NULL

\* No pull has run.
PullAtRest ==
    /\ pfiles = {}
    /\ pclock = 0
    /\ pwrites = 0
    /\ ppc = "idle"

NoSource == [from |-> "unset", canonical |-> FALSE, compat |-> FALSE]

\* migrate_activities_view has not run, no backlog has been selected.
CatalogAtRest ==
    /\ compat = FALSE
    /\ source = NoSource

NoBoundary == [at |-> NULL, until |-> NULL]
NoReport == [limit_15 |-> 0, limit_day |-> 0, used_15 |-> 0, used_day |-> 0]

\* No report has been ingested, the server has counted no call, the clock
\* stands at midnight.
ServerAtRest ==
    /\ reported = NoReport
    /\ server = [limit_15 |-> DefaultLimit15, limit_day |-> DefaultLimitDay,
                 used_15 |-> 0, used_day |-> 0, window |-> 0, day |-> 0]
    /\ calls = 0
    /\ clock = 0
    /\ boundary = NoBoundary

ServiceAtRest ==
    /\ TokenAtRest
    /\ PullAtRest
    /\ CatalogAtRest
    /\ ServerAtRest

\* No enrichment run has been started.
EnrichAtRest ==
    /\ UpsertAtRest
    /\ ServiceAtRest
    /\ backlog = <<>>
    /\ i = 0
    /\ processed = 0
    /\ max_calls = NULL
    /\ sleep_floor = DefaultSleepFloor
    /\ dry_run = FALSE
    /\ epc = "init"
    /\ raw = {}
    /\ details = {}
    /\ last = NoCall
    /\ pause = NoPause
    /\ activities = {}
    /\ eruns = 0
    /\ pending = {}

-----------------------------------------------------------------------------
(* SpecDedup: compact.main without faults, on drawn shard sets.             *)

InitDedup ==
    /\ cols \in Schemas
    /\ shards \in SetsUpTo(RowDomain(cols), MaxRows)
    /\ CompactAtRest
    /\ budget = RateBudget(DefaultCushion, DefaultCushion)
    /\ EnrichAtRest

\* One run of main in which no step raises (lines 43-209): the shards are
\* ranked, written to staging, swapped in, materialized, and the run's
\* directories removed.
CompactNoFault ==
    /\ runs < MaxRuns
    /\ shards # {}
    /\ \E out \in DedupOutcomes(cols, shards) :
          /\ dedup' = out
          /\ silver' = Dir(out)
          /\ gold' = Dir(out)
    /\ prior' = silver
    /\ prevSilver' = silver
    /\ runs' = runs + 1
    /\ UNCHANGED <<cols, shards, staging, backup, orphans, cpc, cerr, failed>>
    /\ UNCHANGED <<crashed, rateVars, enrichVars>>

NextDedup == CompactNoFault

SpecDedup == InitDedup /\ [][NextDedup]_vars

-----------------------------------------------------------------------------
(* SpecCompact: compact.main step by step; any step may raise.  Between     *)
(* runs a pull lands a new shard.                                           *)

\* The rows a pull may land as shard file f in SpecCompact: one activity row,
\* its updated_at (when the column exists) missing or the time of the pull.
LandedRows(c, f) ==
    { r \in RowDomain(c) :
        r.source_file = f /\ r.kudos_count = 0 /\ r.updated_at \in {NULL, f} }

NotRunning == cpc \in {"idle", "done", "raised", "killed"}

InitCompact ==
    /\ cols \in Schemas
    /\ shards = {}
    /\ CompactAtRest
    /\ budget = RateBudget(DefaultCushion, DefaultCushion)
    /\ EnrichAtRest

\* pull.write_parquet_shard: a new file under data/activities.
LandShard ==
    /\ NotRunning
    /\ \E f \in Files :
          /\ \A r \in shards : r.source_file < f
          /\ \A g \in Files : g < f => \E r \in shards : r.source_file = g
          /\ \E r \in LandedRows(cols, f) : shards' = shards \cup {r}
    /\ UNCHANGED <<cols, silver, staging, backup, gold, orphans, cpc, cerr,
                   failed, prior, dedup, runs, prevSilver>>
    /\ UNCHANGED <<crashed, rateVars, enrichVars>>

\* _sweep_orphan_staging_dirs, lines 21-29: whether staging directories of
\* earlier runs are left after the sweep, which removes them when rmtree
\* works (ok) and only warns when it does not.  The mutant never sweeps.
SweptOrphansKept(orph, ok) == orph
SweptOrphans(orph, ok) == orph /\ ~ok

\* main, lines 43-48: no shard, sweep the orphans and return.
StartNoShards ==
    /\ NotRunning
    /\ shards = {}
    /\ orphans' = SweptOrphans(orphans, TRUE)
    /\ cpc' = "done"
    /\ cerr' = "none"
    /\ failed' = {}
    /\ prior' = silver
    /\ dedup' = {}
    /\ UNCHANGED <<cols, shards, silver, staging, backup, gold, runs, prevSilver>>
    /\ UNCHANGED <<crashed, rateVars, enrichVars>>

\* main, lines 50-56: a run begins; staging and backup are None.  A staging
\* directory the previous run could not remove is an orphan from now on.
Start ==
    /\ NotRunning
    /\ shards # {}
    /\ orphans' = (orphans \/ staging.exists)
    /\ staging' = MissingDir
    /\ backup' = MissingDir
    /\ cpc' = "rank"
    /\ cerr' = "none"
    /\ failed' = {}
    /\ prior' = silver
    /\ dedup' = {}
    /\ UNCHANGED <<cols, shards, silver, gold, runs, prevSilver>>
    /\ UNCHANGED <<crashed, rateVars, enrichVars>>

\* A step raises: the exception leaves the try block for the finally block.
Raise(step) ==
    /\ failed' = failed \cup {step}
    /\ cerr' = step
    /\ cpc' = "finally"

\* main, lines 59-118: connect, the views _all and _dedup.
RankAndSelect ==
    /\ cpc = "rank"
    /\ \E out \in DedupOutcomes(cols, shards) : dedup' = out
    /\ cpc' = "stage"
    /\ UNCHANGED <<cols, shards, silver, staging, backup, gold, orphans, cerr,
                   failed, prior, runs, prevSilver>>
    /\ UNCHANGED <<crashed, rateVars, enrichVars>>

FailLoad ==
    /\ cpc = "rank"
    /\ Raise("load")
    /\ UNCHANGED <<cols, shards, silver, staging, backup, gold, orphans,
                   prior, dedup, runs, prevSilver>>
    /\ UNCHANGED <<crashed, rateVars, enrichVars>>

\* main, lines 121-138: mkdir staging and COPY the _dedup view into it.
WriteStaging ==
    /\ cpc = "stage"
    /\ staging' = Dir(dedup)
    /\ cpc' = "swap"
    /\ UNCHANGED <<cols, shards, silver, backup, gold, orphans, cerr, failed,
                   prior, dedup, runs, prevSilver>>
    /\ UNCHANGED <<crashed, rateVars, enrichVars>>

\* mkdir or COPY raises: no staging directory, or one holding part of the rows.
FailStaging ==
    /\ cpc = "stage"
    /\ \/ staging' = MissingDir
       \/ \E part \in (SUBSET dedup) \ {dedup} : staging' = Dir(part)
    /\ Raise("staging_write")
    /\ UNCHANGED <<cols, shards, silver, backup, gold, orphans,
                   prior, dedup, runs, prevSilver>>
    /\ UNCHANGED <<crashed, rateVars, enrichVars>>

\* main, lines 141-143: SILVER_DIR.rename(backup).
RenameToBackup ==
    /\ cpc = "swap"
    /\ silver.exists
    /\ backup' = silver
    /\ silver' = MissingDir
    /\ cpc' = "swap2"
    /\ UNCHANGED <<cols, shards, staging, gold, orphans, cerr, failed,
                   prior, dedup, runs, prevSilver>>
    /\ UNCHANGED <<crashed, rateVars, enrichVars>>

FailRenameToBackup ==
    /\ cpc = "swap"
    /\ silver.exists
    /\ Raise("backup_rename")
    /\ UNCHANGED <<cols, shards, silver, staging, backup, gold, orphans,
                   prior, dedup, runs, prevSilver>>
    /\ UNCHANGED <<crashed, rateVars, enrichVars>>

\* main, lines 153-154: no previous output, staging.rename(SILVER_DIR).
RenameStagingFresh ==
    /\ cpc = "swap"
    /\ ~silver.exists
    /\ silver' = staging
    /\ staging' = MissingDir
    /\ cpc' = "materialize"
    /\ UNCHANGED <<cols, shards, backup, gold, orphans, cerr, failed,
                   prior, dedup, runs, prevSilver>>
    /\ UNCHANGED <<crashed, rateVars, enrichVars>>

FailRenameStagingFresh ==
    /\ cpc = "swap"
    /\ ~silver.exists
    /\ Raise("staging_rename")
    /\ UNCHANGED <<cols, shards, silver, staging, backup, gold, orphans,
                   prior, dedup, runs, prevSilver>>
    /\ UNCHANGED <<crashed, rateVars, enrichVars>>

\* main, lines 144-145: staging.rename(SILVER_DIR) after the backup rename.
RenameStaging ==
    /\ cpc = "swap2"
    /\ silver' = staging
    /\ staging' = MissingDir
    /\ cpc' = "materialize"
    /\ UNCHANGED <<cols, shards, backup, gold, orphans, cerr, failed,
                   prior, dedup, runs, prevSilver>>
    /\ UNCHANGED <<crashed, rateVars, enrichVars>>

\* main, line 146: the rename raises, the except clause is entered.
FailRenameStaging ==
    /\ cpc = "swap2"
    /\ failed' = failed \cup {"staging_rename"}
    /\ cerr' = "staging_rename"
    /\ cpc' = "rollback"
    /\ UNCHANGED <<cols, shards, silver, staging, backup, gold, orphans,
                   prior, dedup, runs, prevSilver>>
    /\ UNCHANGED <<crashed, rateVars, enrichVars>>

\* main, lines 147-152: restore the backup when SILVER_DIR is missing and
\* the backup is there, then raise e.
Rollback ==
    /\ cpc = "rollback"
    /\ IF ~silver.exists /\ backup.exists
          THEN silver' = backup /\ backup' = MissingDir
          ELSE UNCHANGED <<silver, backup>>
    /\ cpc' = "finally"
    /\ UNCHANGED <<cols, shards, staging, gold, orphans, cerr, failed,
                   prior, dedup, runs, prevSilver>>
    /\ UNCHANGED <<crashed, rateVars, enrichVars>>

\* backup.rename(SILVER_DIR) raises; the finally clause of line 151 raises e,
\* the error of the staging rename.
FailRollback ==
    /\ cpc = "rollback"
    /\ ~silver.exists /\ backup.exists
    /\ failed' = failed \cup {"rollback_rename"}
    /\ cpc' = "finally"
    /\ UNCHANGED <<cols, shards, silver, staging, backup, gold, orphans, cerr,
                   prior, dedup, runs, prevSilver>>
    /\ UNCHANGED <<crashed, rateVars, enrichVars>>

\* main, lines 157-192: CREATE OR REPLACE TABLE gold.strava_activities from
\* the Parquet files of SILVER_DIR, the view, ANALYZE.
Materialize ==
    /\ cpc = "materialize"
    /\ gold' = Dir(silver.rows)
    /\ cpc' = "finally"
    /\ UNCHANGED <<cols, shards, silver, staging, backup, orphans, cerr,
                   failed, prior, dedup, runs, prevSilver>>
    /\ UNCHANGED <<crashed, rateVars, enrichVars>>

\* A statement of the materialization raises, before the table is replaced
\* or after it.
FailMaterialize ==
    /\ cpc = "materialize"
    /\ \/ gold' = gold
       \/ gold' = Dir(silver.rows)
    /\ Raise("materialize")
    /\ UNCHANGED <<cols, shards, silver, staging, backup, orphans,
                   prior, dedup, runs, prevSilver>>
    /\ UNCHANGED <<crashed, rateVars, enrichVars>>

\* _safe_rmtree, lines 11-19: the directory is gone afterwards unless rmtree
\* raised (ok = FALSE), which only prints a warning.  The mutant removes
\* nothing.
safe_rmtree_nothing(dir, ok) == dir
safe_rmtree(dir, ok) == IF ok THEN MissingDir ELSE dir

\* main, lines 196-209: _safe_rmtree(staging), _safe_rmtree(backup), the
\* sweep of the staging directories.  _safe_rmtree only warns when a
\* directory cannot be removed; the sweep tries the run's staging again.
Cleanup ==
    /\ cpc = "finally"
    /\ \E okStaging, okBackup, okSweep \in BOOLEAN :
          /\ staging' = safe_rmtree(safe_rmtree(staging, okStaging), okSweep)
          /\ backup' = safe_rmtree(backup, okBackup)
          /\ orphans' = SweptOrphans(orphans, okSweep)
          /\ failed' = IF okStaging /\ okBackup /\ okSweep THEN failed
                        ELSE failed \cup {"rmtree"}
    /\ cpc' = IF cerr = "none" THEN "done" ELSE "raised"
    /\ UNCHANGED <<cols, shards, silver, gold, cerr, prior, dedup,
                   runs, prevSilver>>
    /\ UNCHANGED <<crashed, rateVars, enrichVars>>

Running ==
    cpc \in {"rank", "stage", "swap", "swap2", "rollback", "materialize", "finally"}

\* The process is killed between two steps of main, or inside one: a COPY
\* cut short leaves part of the staging files, the materialization may or
\* may not have replaced the table, the finally block may have removed any
\* of its directories.  Nothing of the finally block runs after the kill.
Kill ==
    /\ Running
    /\ cpc' = "killed"
    /\ crashed' = TRUE
    /\ staging' \in
          IF cpc = "stage" THEN {MissingDir} \cup { Dir(part) : part \in SUBSET dedup }
          ELSE IF cpc = "finally" THEN {staging, MissingDir}
          ELSE {staging}
    /\ backup' \in IF cpc = "finally" THEN {backup, MissingDir} ELSE {backup}
    /\ gold' \in IF cpc = "materialize" THEN {gold, Dir(silver.rows)} ELSE {gold}
    /\ orphans' \in IF cpc = "finally" THEN {orphans, FALSE} ELSE {orphans}
    /\ UNCHANGED <<cols, shards, silver, cerr, failed, prior, dedup, runs,
                   prevSilver>>
    /\ UNCHANGED <<rateVars, enrichVars>>

NextCompact ==
    \/ LandShard
    \/ StartNoShards
    \/ Start
    \/ RankAndSelect
    \/ FailLoad
    \/ WriteStaging
    \/ FailStaging
    \/ RenameToBackup
    \/ FailRenameToBackup
    \/ RenameStagingFresh
    \/ FailRenameStagingFresh
    \/ RenameStaging
    \/ FailRenameStaging
    \/ Rollback
    \/ FailRollback
    \/ Materialize
    \/ FailMaterialize
    \/ Cleanup
    \/ Kill

SpecCompact == InitCompact /\ [][NextCompact]_vars

-----------------------------------------------------------------------------
(* Claims on the swap protocol (SpecCompact).                               *)

RunEnded == cpc \in {"done", "raised"}

\* C1: at the end of a run that found a canonical directory, the canonical
\* directory exists and holds the prior output or the new output, complete.
C1_CanonicalNeverMissing ==
    (RunEnded /\ prior.exists) =>
        /\ silver.exists
        /\ \/ silver.rows = prior.rows
           \/ (dedup # {} /\ silver.rows = dedup)

\* C2: when the rename of staging into the canonical location has raised
\* after the backup rename, then, from the moment the error leaves the except
\* clause, the canonical directory is the prior output (non-empty) and the
\* error that propagates is the error of the staging rename.
C2_RollbackRestoresPrior ==
    (cpc \in {"finally", "raised"} /\ prior.exists /\ "staging_rename" \in failed) =>
        /\ silver.exists
        /\ silver.rows # {}
        /\ silver.rows = prior.rows
        /\ cerr = "staging_rename"

\* C19: after a run of compact.main was killed, a later run in which no step
\* fails ends with the canonical directory holding that run's compaction of
\* the shards, the gold table holding the same rows, and no staging
\* directory left, neither its own nor an orphan.
C19_KilledRunIsRepairedByNextRun ==
    (cpc = "done" /\ crashed /\ failed = {}) =>
        /\ dedup # {}
        /\ silver = Dir(dedup)
        /\ gold = Dir(dedup)
        /\ ~orphans
        /\ ~staging.exists

\* C19 witness: the earlier run was killed between the two renames, so the
\* complete run found no canonical directory and an orphaned staging one.
C19_Witness ==
    /\ cpc = "done"
    /\ crashed
    /\ failed = {}
    /\ ~prior.exists
    /\ gold = Dir(dedup)
    /\ Cardinality(shards) >= 2
    /\ ~orphans

\* C20: at the end of every run, the canonical directory and the table
\* gold.strava_activities hold the same compaction result.
C20_GoldMatchesCanonical ==
    RunEnded =>
        /\ gold.exists = silver.exists
        /\ gold.rows = silver.rows

-----------------------------------------------------------------------------
(* Claims on the result of a fault-free compaction (SpecDedup).             *)

\* The dedup key as sections 3 and 4.4 of the specification declare it: owner
\* and record identifier when the shards carry an id (an absent owner column
\* is NULL in every row), the shard identity otherwise.
DeclaredKey(r) ==
    IF "id" \in cols THEN <<r.athlete_id, r.id>> ELSE <<r.source_file>>

DeclaredGroup(r) == { s \in shards : DeclaredKey(s) = DeclaredKey(r) }

\* C3: after a successful compaction the canonical output holds rows of the
\* shards only, and exactly one row for every dedup-key value present in the
\* shards: none twice, none missing.
C3_ExactlyOneRowPerKey ==
    runs >= 1 =>
        /\ silver.exists
        /\ silver.rows \subseteq shards
        /\ \A r \in shards :
              Cardinality({ o \in silver.rows : DeclaredKey(o) = DeclaredKey(r) }) = 1

\* C3 witness: a compaction has folded three shard rows, two of one key and
\* one of another, into two canonical rows.
C3_Witness ==
    /\ runs >= 1
    /\ Cardinality(shards) = 3
    /\ Cardinality(silver.rows) = 2
    /\ \E r \in shards : Cardinality(DeclaredGroup(r)) = 2

\* Two rows carry the same data apart from the freshness timestamp (and the
\* shard they came from).
SameButFreshness(r, s) ==
    /\ r.id = s.id
    /\ r.athlete_id = s.athlete_id
    /\ r.resource_state = s.resource_state
    /\ r.ingestion_ts = s.ingestion_ts
    /\ r.summary_polyline = s.summary_polyline
    /\ r.kudos_count = s.kudos_count

\* C4: in a key group whose rows differ only in updated_at, the row kept by
\* compaction carries the latest updated_at of the group (a row without a
\* timestamp, NULL, is older than every timestamped row).
C4_LatestFreshnessKept ==
    (runs >= 1 /\ "updated_at" \in cols) =>
        \A k \in silver.rows :
            (\A r, s \in DeclaredGroup(k) : SameButFreshness(r, s)) =>
                \A r \in DeclaredGroup(k) : r.updated_at <= k.updated_at

\* C4 witness: identifier 42 in three shards at three different timestamps,
\* the latest of them in the first shard, and the kept row is that one.
C4_Witness ==
    /\ runs >= 1
    /\ "updated_at" \in cols
    /\ \E k \in silver.rows :
          /\ k.id = 42
          /\ k.updated_at = 3
          /\ k.source_file = 1
          /\ Cardinality(DeclaredGroup(k)) = 3
          /\ \A r, s \in DeclaredGroup(k) :
                /\ SameButFreshness(r, s)
                /\ r # s => (r.updated_at # s.updated_at /\ r.source_file # s.source_file)
                /\ r.updated_at # NULL

\* C5: a second compaction of the same shards leaves the canonical output
\* the first one left.
C5_SecondRunSameOutput ==
    runs >= 2 => silver = prevSilver

-----------------------------------------------------------------------------
(* SpecRate: a RateBudget fed arbitrary server reports.                     *)

Cushions == {0, 1}

\* The parts a header of the model's server is made of: nothing, a word that
\* is no number, or the decimal of a reported value.
Parts == {<<>>, <<"x">>} \cup { ToDecimal(n) : n \in 0..MaxReport }

\* Header values: absent, a single number, every pair of parts, a triple.
HeaderValues ==
    {AbsentHeader, <<ToDecimal(1)>>, <<ToDecimal(1), ToDecimal(1), ToDecimal(1)>>}
    \cup { <<p, q>> : p \in Parts, q \in Parts }

InitRate ==
    /\ cols = {"id"}
    /\ shards = {}
    /\ CompactAtRest
    /\ EnrichAtRest
    /\ \E c15 \in Cushions, cday \in Cushions : budget = RateBudget(c15, cday)

\* One response arrives and run() hands its headers to the budget (line 555).
UpdateFromHeaders ==
    /\ \E hLimit \in HeaderValues, hUsage \in HeaderValues :
          budget' = update_from_headers(budget, hLimit, hUsage)
    /\ UNCHANGED <<compactVars, enrichVars>>

NextRate == UpdateFromHeaders

SpecRate == InitRate /\ [][NextRate]_vars

\* C6: whatever reports have been ingested and whatever the cushions,
\* would_exceed_next_call answers false only when used + 1 stays within
\* limit - cushion in the short window and in the long window.
C6_NeverFalseWhenExhausted ==
    ~would_exceed_next_call(budget) =>
        /\ ~((budget.used_15 + 1) > (budget.limit_15 - budget.cushion_15))
        /\ ~((budget.used_day + 1) > (budget.limit_day - budget.cushion_day))

\* C6 witness: after reports of limits and usage, the answer is false with
\* the short window exactly at its threshold.
C6_Witness ==
    /\ budget.limit_15 # DefaultLimit15
    /\ budget.used_15 > 0
    /\ ~would_exceed_next_call(budget)
    /\ budget.used_15 + 1 = budget.limit_15 - budget.cushion_15

-----------------------------------------------------------------------------
(* SpecEnrich: enrich.run, lines 510-588, against a server that answers     *)
(* each detail call with 200, 429 or an error and with any headers.         *)

SleepFloors == {0, DefaultSleepFloor}
RetryDelays == {0, 90}
Quarter == [kind |-> "quarter", secs |-> 0]
Seconds(n) == [kind |-> "secs", secs |-> n]
Max(a, b) == IF a >= b THEN a ELSE b

StartDates == {1, 2}
Statuses == {200, 401, 429, 500}

\* Candidate rows: an id and a start_date, NULL when it does not parse.
Candidates(ids, dates) == [id : ids, start_date : dates]

\* ORDER BY start_date DESC NULLS LAST.
NullsLast(v) == IF v = NULL THEN 0 ELSE 1
StartsBefore(r, t) ==
    \/ NullsLast(r.start_date) > NullsLast(t.start_date)
    \/ /\ NullsLast(r.start_date) = NullsLast(t.start_date)
       /\ r.start_date > t.start_date
Ordered(f, n) == \A a \in 1..n, b \in 1..n : a < b => ~StartsBefore(f[b], f[a])

\* select_backlog_ids with fetch_all and no explicit ids, lines 250-299: the
\* candidate rows with no detail row (LEFT JOIN ... WHERE d.activity_id IS
\* NULL), by start_date descending; rows equal in start_date come in any
\* order.  The mutant leaves the anti-join out.
select_backlog_ids_no_join(rows, det) ==
    LET n == Cardinality(rows)
    IN  { [k \in 1..n |-> f[k].id] :
            f \in { g \in [1..n -> rows] :
                      /\ \A a \in 1..n, b \in 1..n : a # b => g[a] # g[b]
                      /\ Ordered(g, n) } }
select_backlog_ids(rows, det) ==
    LET cand == { r \in rows : r.id \notin det }
        n    == Cardinality(cand)
    IN  { [k \in 1..n |-> f[k].id] :
            f \in { g \in [1..n -> cand] :
                      /\ \A a \in 1..n, b \in 1..n : a # b => g[a] # g[b]
                      /\ Ordered(g, n) } }

\* fetch_detail, lines 316-320: 429 is returned to the loop, raise_for_status
\* raises on every other 4xx and 5xx, anything else is a payload.  The mutant
\* lets a 401 through as a payload.
fetch_outcome_only_5xx(status) ==
    IF status = 429 THEN "rate_limited"
    ELSE IF status >= 500 /\ status < 600 THEN "raise"
    ELSE "ok"
fetch_outcome(status) ==
    IF status = 429 THEN "rate_limited"
    ELSE IF status >= 400 /\ status < 600 THEN "raise"
    ELSE "ok"

\* write_detail_json, lines 496-505: one more file in the raw directory.  The
\* mutant writes nothing.
write_detail_json_nothing(files, id) == files
write_detail_json(files, id) == files \cup {id}

\* What the server can put in X-RateLimit-Limit and X-RateLimit-Usage.
ServerLimits == {AbsentHeader, HeaderOf(2, 3)}
ServerUsages == {AbsentHeader, HeaderOf(1, 1), HeaderOf(2, 3)}

\* What the server can state in Retry-After: nothing, a number of seconds,
\* or an HTTP date, which is no integer.
HttpDate == <<"F", "r", "i">>
ServerRetry ==
    { [delay |-> d, text |-> ToDecimal(d)] : d \in RetryDelays }
    \cup { [delay |-> NULL, text |-> <<>>], [delay |-> NULL, text |-> HttpDate] }

InitEnrich ==
    /\ cols = {"id"}
    /\ shards = {}
    /\ CompactAtRest
    /\ \E c15 \in Cushions, cday \in Cushions : budget = RateBudget(c15, cday)
    /\ activities \in SetsUpTo(Candidates(Ids, StartDates), MaxBacklog)
    /\ eruns = 1
    /\ pending = {}
    /\ backlog = <<>>
    /\ i = 0
    /\ processed = 0
    /\ max_calls \in {NULL} \cup (0..MaxBacklog)
    /\ sleep_floor \in SleepFloors
    /\ dry_run \in BOOLEAN
    /\ epc = "init"
    /\ raw = {}
    /\ details = {}
    /\ last = NoCall
    /\ pause = NoPause
    /\ UpsertAtRest
    /\ ServiceAtRest

aid == backlog[i + 1]

\* while i < len(backlog) and processed < hard_cap, line 546 (the mutant
\* reads <= for the cap).
LoopContinuesNoCap == i < Len(backlog)
LoopContinuesThroughCap ==
    i < Len(backlog) /\ (max_calls = NULL \/ processed <= max_calls)
LoopContinues ==
    i < Len(backlog) /\ (max_calls = NULL \/ processed < max_calls)

\* The 429 branch computes its sleep, lines 557-569 (the mutant leaves the
\* floor out).
BackoffNoFloor(text, floor) ==
    IF text = <<>> THEN Quarter
    ELSE Seconds(IF ParseInt(text).ok THEN ParseInt(text).val
                 ELSE DefaultRetrySeconds)
Backoff(text, floor) ==
    IF text = <<>> THEN Quarter
    ELSE Seconds(Max(IF ParseInt(text).ok THEN ParseInt(text).val
                     ELSE DefaultRetrySeconds, floor))

\* continue, line 570: the cursor the loop resumes with after a 429 (the
\* mutant moves on to the next item).
RetryCursorAdvances(idx) == idx + 1
RetryCursor(idx) == idx

\* Lines 521-528: the backlog is selected; an empty backlog ends the run
\* before any token is asked for.
EnrichStart ==
    /\ epc = "init"
    /\ \E b \in select_backlog_ids(activities, details) :
          /\ backlog' = b
          /\ epc' = IF b = <<>> THEN "done" ELSE "token"
    /\ UNCHANGED <<budget, i, processed, max_calls, sleep_floor,
                   dry_run, raw, details, last, pause>>
    /\ UNCHANGED <<restartVars, upsertVars, serviceVars, compactVars>>

\* Lines 530-539: the token is obtained; a dry run stops here.
GetAccessToken ==
    /\ epc = "token"
    /\ epc' = IF dry_run THEN "done" ELSE "loop"
    /\ UNCHANGED <<budget, backlog, i, processed, max_calls, sleep_floor,
                   dry_run, raw, details, last, pause>>
    /\ UNCHANGED <<restartVars, upsertVars, serviceVars, compactVars>>

\* get_access_token raises (lines 104-133).
FailAccessToken ==
    /\ epc = "token"
    /\ epc' = "raised"
    /\ UNCHANGED <<budget, backlog, i, processed, max_calls, sleep_floor,
                   dry_run, raw, details, last, pause>>
    /\ UNCHANGED <<restartVars, upsertVars, serviceVars, compactVars>>

\* Lines 546-552: the loop test passes, the budget is consulted, and the
\* loop sleeps to the next quarter hour when it signals exhaustion.
LoopIteration ==
    /\ epc = "loop"
    /\ LoopContinues
    /\ pause' = IF would_exceed_next_call(budget) THEN Quarter ELSE NoPause
    /\ epc' = "call"
    /\ UNCHANGED <<budget, backlog, i, processed, max_calls, sleep_floor,
                   dry_run, raw, details, last>>
    /\ UNCHANGED <<restartVars, upsertVars, serviceVars, compactVars>>

\* Lines 546, 583-588: the loop test fails and run() returns.
LoopExit ==
    /\ epc = "loop"
    /\ ~LoopContinues
    /\ epc' = "done"
    /\ UNCHANGED <<budget, backlog, i, processed, max_calls, sleep_floor,
                   dry_run, raw, details, last, pause>>
    /\ UNCHANGED <<restartVars, upsertVars, serviceVars, compactVars>>

\* Lines 554-555: the detail call answers 200.
FetchOk ==
    /\ epc = "call"
    /\ \E hLimit \in ServerLimits, hUsage \in ServerUsages :
          budget' = update_from_headers(budget, hLimit, hUsage)
    /\ \E st \in Statuses :
          /\ fetch_outcome(st) = "ok"
          /\ last' = [aid |-> aid, status |-> st, delay |-> NULL]
    /\ epc' = "write"
    /\ UNCHANGED <<backlog, i, processed, max_calls, sleep_floor, dry_run,
                   raw, details, pause>>
    /\ UNCHANGED <<restartVars, upsertVars, serviceVars, compactVars>>

\* Lines 554-570 with fetch_detail lines 317-318: the call answers 429.
FetchRateLimited ==
    /\ epc = "call"
    /\ \E hLimit \in ServerLimits, hUsage \in ServerUsages, ra \in ServerRetry,
          st \in Statuses :
          /\ fetch_outcome(st) = "rate_limited"
          /\ budget' = update_from_headers(budget, hLimit, hUsage)
          /\ last' = [aid |-> aid, status |-> st, delay |-> ra.delay]
          /\ pause' = Backoff(ra.text, sleep_floor)
    /\ i' = RetryCursor(i)
    /\ epc' = "loop"
    /\ UNCHANGED <<backlog, processed, max_calls, sleep_floor, dry_run, raw,
                   details>>
    /\ UNCHANGED <<restartVars, upsertVars, serviceVars, compactVars>>

\* fetch_detail line 319: any other error status, or the request itself
\* failing, raises out of run().
FetchRaises ==
    /\ epc = "call"
    /\ \E st \in Statuses :
          /\ fetch_outcome(st) = "raise"
          /\ last' = [aid |-> aid, status |-> st, delay |-> NULL]
    /\ epc' = "raised"
    /\ UNCHANGED <<budget, backlog, i, processed, max_calls, sleep_floor,
                   dry_run, raw, details, pause>>
    /\ UNCHANGED <<restartVars, upsertVars, serviceVars, compactVars>>

\* write_detail_json, lines 496-505 (called at line 573).
WriteDetailJson ==
    /\ epc = "write"
    /\ raw' = write_detail_json(raw, aid)
    /\ epc' = "upsert"
    /\ UNCHANGED <<budget, backlog, i, processed, max_calls, sleep_floor,
                   dry_run, details, last, pause>>
    /\ UNCHANGED <<restartVars, upsertVars, serviceVars, compactVars>>

FailWriteDetailJson ==
    /\ epc = "write"
    /\ epc' = "raised"
    /\ UNCHANGED <<budget, backlog, i, processed, max_calls, sleep_floor,
                   dry_run, raw, details, last, pause>>
    /\ UNCHANGED <<restartVars, upsertVars, serviceVars, compactVars>>

\* Lines 574-577: upsert_detail, then both counters move on.
UpsertDetail ==
    /\ epc = "upsert"
    /\ details' = details \cup {aid}
    /\ processed' = processed + 1
    /\ i' = i + 1
    /\ epc' = "loop"
    /\ UNCHANGED <<budget, backlog, max_calls, sleep_floor, dry_run, raw,
                   last, pause>>
    /\ UNCHANGED <<restartVars, upsertVars, serviceVars, compactVars>>

FailUpsertDetail ==
    /\ epc = "upsert"
    /\ epc' = "raised"
    /\ UNCHANGED <<budget, backlog, i, processed, max_calls, sleep_floor,
                   dry_run, raw, details, last, pause>>
    /\ UNCHANGED <<restartVars, upsertVars, serviceVars, compactVars>>

NextEnrich ==
    \/ EnrichStart
    \/ GetAccessToken
    \/ FailAccessToken
    \/ LoopIteration
    \/ LoopExit
    \/ FetchOk
    \/ FetchRateLimited
    \/ FetchRaises
    \/ WriteDetailJson
    \/ FailWriteDetailJson
    \/ UpsertDetail
    \/ FailUpsertDetail

SpecEnrich == InitEnrich /\ [][NextEnrich]_vars

\* C7: a detail call is never issued while would_exceed_next_call is true
\* of the budget held at the moment of the call.
C7_NoCallWhileExhausted ==
    epc = "call" => ~would_exceed_next_call(budget)

\* C8: a detail call answered 429 leaves the cursor and the processed count
\* as they were, writes no raw file and no detail row, and the next call
\* issued is for the same identifier.
C8_RateLimitedRetriesSameItem ==
    /\ [][(epc = "call" /\ last'.status = 429) =>
            /\ i' = i
            /\ processed' = processed
            /\ raw' = raw
            /\ details' = details]_vars
    /\ [](epc = "call" /\ last.status = 429 => aid = last.aid)

\* C8 witness: the second item of the backlog was answered 429 and is
\* about to be called again.
C8_Witness ==
    /\ epc = "call"
    /\ last.status = 429
    /\ processed = 1
    /\ aid = last.aid
    /\ aid # backlog[1]

\* C9: after a 429 that states a delay of d seconds, with a floor of f
\* seconds, the loop has slept at least max(d, f) seconds.
C9_PauseAtLeastDelayAndFloor ==
    (epc = "loop" /\ last.status = 429 /\ last.delay # NULL) =>
        /\ pause.kind = "secs"
        /\ pause.secs >= Max(last.delay, sleep_floor)

\* C9 witness: delay 90 and floor 5 gave a sleep of 90 seconds.
C9_Witness ==
    /\ epc = "loop"
    /\ last.status = 429
    /\ last.delay = 90
    /\ sleep_floor = DefaultSleepFloor
    /\ pause = Seconds(90)

\* C10: with a cap of N calls, processed never exceeds N, no call is made
\* once processed has reached N, and at N the run ends without raising
\* even if backlog items remain; with N = 0 nothing is processed.
C10_HardCapBoundsProcessed ==
    /\ [](max_calls # NULL =>
            /\ processed <= max_calls
            /\ (epc \in {"call", "write", "upsert"} => processed < max_calls)
            /\ (max_calls = 0 => raw = {} /\ details = {}))
    /\ [][(epc = "loop" /\ max_calls # NULL /\ processed >= max_calls) =>
            epc' = "done"]_vars

\* C10 witness: a run capped at one call has ended normally with one item
\* processed and one left in the backlog.
C10_Witness ==
    /\ epc = "done"
    /\ max_calls = 1
    /\ processed = 1
    /\ i < Len(backlog)

\* C11: the raw record of a payload is written before its upsert starts, and
\* no identifier is in the detail store without a raw record written first
\* in the same run.
C11_RawBeforeUpsert ==
    /\ details \subseteq raw
    /\ (epc = "upsert" => aid \in raw)

\* C11 witness: the second item of the backlog has its raw record and is
\* about to be upserted; the first is in the store.
C11_Witness ==
    /\ epc = "upsert"
    /\ processed = 1
    /\ aid \in raw
    /\ aid \notin details
    /\ details # {}

\* C13: a detail call that fails with anything but 429 ends the run with the
\* error: nothing is persisted by that step, and once raised the run issues
\* no call and changes neither the raw records nor the detail store.
C13_OtherFailuresAbort ==
    /\ [][(epc = "call" /\ last'.status \notin {200, 429}) =>
            /\ epc' = "raised"
            /\ raw' = raw
            /\ details' = details
            /\ processed' = processed]_vars
    /\ [][epc = "raised" =>
            /\ epc' = "raised"
            /\ last' = last
            /\ raw' = raw
            /\ details' = details]_vars

\* C13 witness: the second call of a run was rejected with 401; the first
\* identifier is in the store, the rejected one is not.
C13_Witness ==
    /\ epc = "raised"
    /\ last.status = 401
    /\ processed = 1
    /\ backlog[1] \in details
    /\ last.aid \notin details

-----------------------------------------------------------------------------
(* SpecRestart: runs of enrich.run one after the other, each of which may   *)
(* be killed; the raw directory and the detail store outlive the process.   *)

MaxEnrichRuns == 2

InitRestart ==
    /\ cols = {"id"}
    /\ shards = {}
    /\ CompactAtRest
    /\ budget = RateBudget(DefaultCushion, DefaultCushion)
    /\ activities \in SetsUpTo(Candidates(Ids, StartDates), MaxBacklog)
    /\ eruns = 1
    /\ pending = {}
    /\ backlog = <<>>
    /\ i = 0
    /\ processed = 0
    /\ max_calls = NULL
    /\ sleep_floor = DefaultSleepFloor
    /\ dry_run = FALSE
    /\ epc = "init"
    /\ raw = {}
    /\ details = {}
    /\ last = NoCall
    /\ pause = NoPause
    /\ UpsertAtRest
    /\ ServiceAtRest

\* The process is killed.  Inside write_detail_json the file may or may not
\* have been created; inside upsert_detail the parent row may or may not have
\* been inserted.
EnrichKill ==
    /\ epc \in {"token", "loop", "call", "write", "upsert"}
    /\ epc' = "killed"
    /\ raw' \in IF epc = "write" THEN {raw, write_detail_json(raw, aid)} ELSE {raw}
    /\ details' \in IF epc = "upsert" THEN {details, details \cup {aid}} ELSE {details}
    /\ UNCHANGED <<budget, backlog, i, processed, max_calls, sleep_floor,
                   dry_run, last, pause, restartVars>>
    /\ UNCHANGED <<upsertVars, serviceVars, compactVars>>

\* run is started again, lines 510-545: a new process, a new RateBudget, the
\* same files and the same database.
EnrichRestart ==
    /\ epc \in {"done", "raised", "killed"}
    /\ eruns < MaxEnrichRuns
    /\ eruns' = eruns + 1
    /\ pending' = raw \ details
    /\ budget' = RateBudget(budget.cushion_15, budget.cushion_day)
    /\ backlog' = <<>>
    /\ i' = 0
    /\ processed' = 0
    /\ last' = NoCall
    /\ pause' = NoPause
    /\ epc' = "init"
    /\ UNCHANGED <<max_calls, sleep_floor, dry_run, raw, details, activities>>
    /\ UNCHANGED <<upsertVars, serviceVars, compactVars>>

NextRestart ==
    \/ EnrichStart
    \/ GetAccessToken
    \/ FailAccessToken
    \/ LoopIteration
    \/ LoopExit
    \/ FetchOk
    \/ FetchRateLimited
    \/ FetchRaises
    \/ WriteDetailJson
    \/ FailWriteDetailJson
    \/ UpsertDetail
    \/ FailUpsertDetail
    \/ EnrichKill
    \/ EnrichRestart

SpecRestart == InitRestart /\ [][NextRestart]_vars

\* C12: an identifier whose raw record was written and whose upsert did not
\* happen gets into the detail store in a later run without a new detail call:
\* no later run issues a detail call for such an identifier.
C12_NoRefetchOfRecordedPayload ==
    \A x \in pending : last.aid # x

DistinctCandidates ==
    \A r \in activities, t \in activities : r.id = t.id => r = t

\* C34: an identifier whose detail an earlier run persisted is not selected
\* into the backlog of a later run, and across the runs no identifier is
\* fetched successfully twice: no detail call is answered with a payload
\* for an identifier that has a detail row or whose payload an earlier
\* successful call already brought (its raw record is on disk).  Stated for
\* candidates that name every identifier once.
C34_FetchedAtMostOnceAcrossRuns ==
    /\ [][ (DistinctCandidates /\ epc = "init") =>
              \A k \in 1..Len(backlog') : backlog'[k] \notin details ]_vars
    /\ []( (DistinctCandidates /\ epc = "write") =>
              (last.aid \notin details /\ last.aid \notin raw) )

\* C35: the backlog of a run names no identifier twice, and no detail call
\* of the run is answered for an identifier the run has already persisted,
\* also when the candidate rows come from shards that overlap.
C35_NoDuplicateInBacklog ==
    /\ \A a \in 1..Len(backlog), b \in 1..Len(backlog) :
          a # b => backlog[a] # backlog[b]
    /\ (epc = "write" => last.aid \notin details)

-----------------------------------------------------------------------------
(* SpecBacklog: select_backlog_ids on candidate rows and detail stores      *)
(* drawn from bounded sets.                                                 *)

MaxCands == 3
BacklogIds == {1, 2, 3}
BacklogDates == {NULL, 1, 2}

InitBacklog ==
    /\ cols = {"id"}
    /\ shards = {}
    /\ CompactAtRest
    /\ budget = RateBudget(DefaultCushion, DefaultCushion)
    /\ activities \in SetsUpTo(Candidates(BacklogIds, BacklogDates), MaxCands)
    /\ details \in SUBSET BacklogIds
    /\ eruns = 1
    /\ pending = {}
    /\ backlog = <<>>
    /\ i = 0
    /\ processed = 0
    /\ max_calls = NULL
    /\ sleep_floor = DefaultSleepFloor
    /\ dry_run = FALSE
    /\ epc = "init"
    /\ raw = {}
    /\ last = NoCall
    /\ pause = NoPause
    /\ UpsertAtRest
    /\ ServiceAtRest

\* run, line 525: backlog = select_backlog_ids(con, all_, since_days, None).
SelectBacklog ==
    /\ epc = "init"
    /\ \E b \in select_backlog_ids(activities, details) : backlog' = b
    /\ epc' = "selected"
    /\ UNCHANGED <<budget, i, processed, max_calls, sleep_floor, dry_run, raw,
                   details, last, pause, restartVars>>
    /\ UNCHANGED <<upsertVars, serviceVars, compactVars>>

NextBacklog == SelectBacklog

SpecBacklog == InitBacklog /\ [][NextBacklog]_vars

CandidateIds == { r.id : r \in activities }
BacklogIdSet == { backlog[k] : k \in 1..Len(backlog) }
AtLeastAsRecent(r, t) ==
    t.start_date = NULL \/ (r.start_date # NULL /\ r.start_date >= t.start_date)

\* C14: without recency filter and explicit ids, the backlog holds exactly the
\* candidate identifiers that have no detail row, none that has one, the
\* more recent start first; when every candidate identifier occurs once, each
\* missing one is returned once.
C14_BacklogIsMissingCandidatesByRecency ==
    epc = "selected" =>
        /\ BacklogIdSet = CandidateIds \ details
        /\ \A a \in 1..Len(backlog), b \in 1..Len(backlog) :
              a < b => \E r \in activities, t \in activities :
                          /\ r.id = backlog[a]
                          /\ t.id = backlog[b]
                          /\ AtLeastAsRecent(r, t)
        /\ (Cardinality(CandidateIds) = Cardinality(activities) =>
              Len(backlog) = Cardinality(CandidateIds \ details))

\* C14 witness: candidates 1, 2, 3 with 3 started last, 2 in the detail
\* store: the backlog is 3, 1.
C14_Witness ==
    /\ epc = "selected"
    /\ CandidateIds = {1, 2, 3}
    /\ details = {2}
    /\ backlog = <<3, 1>>
    /\ [id |-> 3, start_date |-> 2] \in activities
    /\ [id |-> 1, start_date |-> 1] \in activities

(***************************************************************************)
(* upsert_detail (enrich.py): one parent row per activity in               *)
(* activity_details, child rows in activity_splits_metric,                 *)
(* activity_splits_standard and activity_segment_efforts.  The connection  *)
(* runs no explicit transaction, so every statement commits on its own.    *)
(***************************************************************************)
MaxUpserts == 2              \* upsert_detail calls in one behaviour
MaxSplits == 2               \* longest delivered list of splits
Names == {NULL, 1, 2}        \* "name" of a payload; NULL: key absent or null
TotalPhotoCounts == {NULL, 0, 2}
PhotoCounts == {NULL, 1}
SplitValues == {1, 2}        \* content of one delivered split
EffortIds == {1, 2}          \* "id" of a delivered segment effort

SplitLists ==
    {NoList} \cup
    { Delivered(l) : l \in UNION { [1..n -> SplitValues] : n \in 0..MaxSplits } }
StandardLists == {NoList, Delivered(<<>>), Delivered(<<1>>)}
EffortLists ==
    {NoList} \cup { Delivered(l) : l \in {<<>>, <<1>>, <<2>>, <<1, 2>>} }

\* Payloads of GET /activities/{id}.  A payload varies the parent's columns
\* or delivers one of the three child keys.
UpsertPayloads ==
    { p \in [id : Ids, name : Names, total_photo_count : TotalPhotoCounts,
             photo_count : PhotoCounts, splits_metric : SplitLists,
             splits_standard : StandardLists, segment_efforts : EffortLists] :
        /\ ~(p.splits_metric.present /\ p.splits_standard.present)
        /\ ~(p.splits_metric.present /\ p.segment_efforts.present)
        /\ ~(p.splits_standard.present /\ p.segment_efforts.present)
        /\ (p.splits_metric.present \/ p.splits_standard.present
                \/ p.segment_efforts.present) =>
              /\ p.name = 1
              /\ p.total_photo_count = NULL
              /\ p.photo_count = NULL }

\* activity.get(key) or []
child_list(c) == IF c.present THEN c.items ELSE <<>>

\* activity.get("total_photo_count") or activity.get("photo_count")
photo_count_of(p) ==
    IF p.total_photo_count \notin {NULL, 0}
    THEN p.total_photo_count ELSE p.photo_count

ParentRow(p, t) ==
    [activity_id |-> p.id, name |-> p.name, photo_count |-> photo_count_of(p),
     fetched_at |-> t]
Content(r) ==
    [activity_id |-> r.activity_id, name |-> r.name,
     photo_count |-> r.photo_count]
ParentsOf(st, a) == { r \in st.parents : r.activity_id = a }
Children(table, a) == { r \in table : r.activity_id = a }

\* A parent insert that keeps the stored value of a column the payload
\* leaves null.
insert_parent_coalesce(parents, p, t) ==
    LET old == { r \in parents : r.activity_id = p.id }
        keep == IF p.name = NULL /\ old # {}
                THEN (CHOOSE r \in old : TRUE).name ELSE p.name
    IN  (parents \ old) \cup
            {[ParentRow(p, t) EXCEPT !.name = keep]}

\* INSERT OR REPLACE INTO activity_details: activity_id is the primary key,
\* every column is taken from the payload, fetched_at is NOW().
insert_parent(parents, p, t) ==
    { r \in parents : r.activity_id # p.id } \cup {ParentRow(p, t)}

SplitRow(a, l, k) == [activity_id |-> a, split_index |-> k, v |-> l[k]]

\* Statement k of a splits block with a non-empty list l: statement 0 is the
\* DELETE of the activity's rows, statement k >= 1 the INSERT OR REPLACE of
\* the k-th split under the key (activity_id, split_index).
SplitsStep(table, a, l, k) ==
    IF k = 0
    THEN { r \in table : r.activity_id # a }
    ELSE { r \in table : ~(r.activity_id = a /\ r.split_index = k) }
            \cup {SplitRow(a, l, k)}

RECURSIVE SplitsAfter(_, _, _, _)
SplitsAfter(table, a, l, k) ==
    IF k = 0
    THEN SplitsStep(table, a, l, 0)
    ELSE SplitsStep(SplitsAfter(table, a, l, k - 1), a, l, k)

\* if splits: DELETE ... ; for i, s in enumerate(splits, start=1): INSERT ...
\* (the mutant runs the DELETE whatever the list is).
replace_splits_unconditional(table, a, l) == SplitsAfter(table, a, l, Len(l))
replace_splits(table, a, l) ==
    IF l = <<>> THEN table ELSE SplitsAfter(table, a, l, Len(l))

EffortRow(a, l, k) == [effort_id |-> l[k], activity_id |-> a]

\* Statement k >= 1 of the efforts block: INSERT OR REPLACE of the k-th
\* effort under the key effort_id.
EffortsStep(table, a, l, k) ==
    { r \in table : r.effort_id # l[k] } \cup {EffortRow(a, l, k)}

RECURSIVE EffortsAfter(_, _, _, _)
EffortsAfter(table, a, l, k) ==
    IF k = 0
    THEN table
    ELSE EffortsStep(EffortsAfter(table, a, l, k - 1), a, l, k)

\* if seg_efforts: for e in seg_efforts: INSERT OR REPLACE ...
insert_efforts(table, a, l) ==
    IF l = <<>> THEN table ELSE EffortsAfter(table, a, l, Len(l))

\* The whole of upsert_detail, run to its end at database time t.
upsert_detail(st, p, t) ==
    [parents  |-> insert_parent(st.parents, p, t),
     metric   |-> replace_splits(st.metric, p.id, child_list(p.splits_metric)),
     standard |-> replace_splits(st.standard, p.id,
                                 child_list(p.splits_standard)),
     efforts  |-> insert_efforts(st.efforts, p.id,
                                 child_list(p.segment_efforts))]

HistOf(st, p, prev) ==
    [before |-> { Content(r) : r \in ParentsOf(st, p.id) },
     repeat |-> (p = prev)]

\* No variable outside the detail tables moves.
UpsertFrame ==
    /\ UNCHANGED <<backlog, i, processed, max_calls, sleep_floor, dry_run, epc,
                   raw, details, last, pause, restartVars>>
    /\ UNCHANGED <<rateVars, serviceVars, compactVars>>

InitUpsert ==
    /\ cols = {"id"}
    /\ shards = {}
    /\ CompactAtRest
    /\ budget = RateBudget(DefaultCushion, DefaultCushion)
    /\ EnrichAtRest

\* upsert_detail(con, activity) returns.
UpsertPayload ==
    /\ upc.phase \in {"idle", "done"}
    /\ now < MaxUpserts
    /\ \E p \in UpsertPayloads :
          /\ payload' = p
          /\ store' = upsert_detail(store, p, now + 1)
          /\ hist' = HistOf(store, p, payload)
    /\ now' = now + 1
    /\ upc' = [phase |-> "done", k |-> 0]
    /\ UpsertFrame

NextUpsert ==
    \/ UpsertPayload

SpecUpsert == InitUpsert /\ [][NextUpsert]_vars

DeliveredSplits(a, l) == { SplitRow(a, l, k) : k \in 1..Len(l) }
DeliveredEfforts(a, l) == { EffortRow(a, l, k) : k \in 1..Len(l) }

\* C15: after upsert_detail has run with a non-empty list of metric splits,
\* standard splits or segment efforts, the stored children of that activity in
\* that table are exactly the delivered ones.
C15_DeliveredChildrenReplaceStored ==
    upc.phase = "done" =>
        /\ child_list(payload.splits_metric) # <<>> =>
              Children(store.metric, payload.id) =
                  DeliveredSplits(payload.id, payload.splits_metric.items)
        /\ child_list(payload.splits_standard) # <<>> =>
              Children(store.standard, payload.id) =
                  DeliveredSplits(payload.id, payload.splits_standard.items)
        /\ child_list(payload.segment_efforts) # <<>> =>
              Children(store.efforts, payload.id) =
                  DeliveredEfforts(payload.id, payload.segment_efforts.items)

\* C16: after upsert_detail has run with a child list delivered as the empty
\* list, the activity has no stored children in that table.
C16_EmptyListClearsChildren ==
    upc.phase = "done" =>
        /\ payload.splits_metric = Delivered(<<>>) =>
              Children(store.metric, payload.id) = {}
        /\ payload.splits_standard = Delivered(<<>>) =>
              Children(store.standard, payload.id) = {}
        /\ payload.segment_efforts = Delivered(<<>>) =>
              Children(store.efforts, payload.id) = {}

\* C18: after upsert_detail has run there is exactly one parent row of the
\* activity, every column of it is the payload's value (null where the
\* payload has none) and fetched_at is the time of the call; a call that
\* repeats the payload of the call before leaves the content of the row as
\* it was.
C18_ParentRowIsThePayload ==
    upc.phase = "done" =>
        /\ ParentsOf(store, payload.id) = {ParentRow(payload, now)}
        /\ hist.repeat =>
              { Content(r) : r \in ParentsOf(store, payload.id) } = hist.before

\* C18 witness: the activity had a parent row with a name, the payload has
\* none, and the stored name is null.
C18_Witness ==
    /\ upc.phase = "done"
    /\ hist.before = {[activity_id |-> 42, name |-> 1, photo_count |-> 2]}
    /\ payload.id = 42
    /\ payload.name = NULL
    /\ payload.total_photo_count = 0
    /\ ParentsOf(store, 42) = {[activity_id |-> 42, name |-> NULL,
                                photo_count |-> 1, fetched_at |-> 2]}

\* C33: a call of upsert_detail whose payload has no key for a child
\* collection leaves the stored children of that activity in that collection
\* as they were, and the call returns.
C33_AbsentCollectionKeepsChildren ==
    [][ /\ upc'.phase = "done"
        /\ ~payload'.splits_metric.present =>
              Children(store'.metric, payload'.id) =
                  Children(store.metric, payload'.id)
        /\ ~payload'.splits_standard.present =>
              Children(store'.standard, payload'.id) =
                  Children(store.standard, payload'.id)
        /\ ~payload'.segment_efforts.present =>
              Children(store'.efforts, payload'.id) =
                  Children(store.efforts, payload'.id) ]_vars

\* C33 witness: activity 42 has two stored metric splits and one more call
\* for it, without the key splits_metric, has returned.
C33_Witness ==
    /\ upc.phase = "done"
    /\ now = 2
    /\ payload.id = 42
    /\ ~payload.splits_metric.present
    /\ Children(store.metric, 42) = DeliveredSplits(42, <<1, 2>>)

(***************************************************************************)
(* upsert_detail statement by statement: each con.execute commits on its   *)
(* own, and the process can die or a statement can raise between any two.  *)
(***************************************************************************)
At(ph, n) == [phase |-> ph, k |-> n]

\* upsert_detail(con, activity) is entered.
CallUpsert ==
    /\ upc.phase \in {"idle", "done", "killed"}
    /\ now < MaxUpserts
    /\ \E p \in UpsertPayloads :
          /\ payload' = p
          /\ hist' = HistOf(store, p, payload)
    /\ now' = now + 1
    /\ upc' = At("parent", 0)
    /\ UNCHANGED store
    /\ UpsertFrame

\* con.execute(INSERT OR REPLACE INTO activity_details ...)
ExecParent ==
    /\ upc.phase = "parent"
    /\ store' = [store EXCEPT !.parents = insert_parent(@, payload, now)]
    /\ upc' = At("metric", 0)
    /\ UNCHANGED <<payload, now, hist>>
    /\ UpsertFrame

\* The next statement of the splits_metric block, or the block is skipped.
ExecSplitsMetric ==
    /\ upc.phase = "metric"
    /\ LET l == child_list(payload.splits_metric)
       IN  IF l = <<>>
           THEN /\ upc' = At("standard", 0)
                /\ UNCHANGED store
           ELSE /\ store' = [store EXCEPT
                               !.metric = SplitsStep(@, payload.id, l, upc.k)]
                /\ upc' = IF upc.k = Len(l) THEN At("standard", 0)
                                            ELSE At("metric", upc.k + 1)
    /\ UNCHANGED <<payload, now, hist>>
    /\ UpsertFrame

\* The next statement of the splits_standard block, or the block is skipped.
ExecSplitsStandard ==
    /\ upc.phase = "standard"
    /\ LET l == child_list(payload.splits_standard)
       IN  IF l = <<>>
           THEN /\ upc' = At("efforts", 0)
                /\ UNCHANGED store
           ELSE /\ store' = [store EXCEPT
                               !.standard = SplitsStep(@, payload.id, l, upc.k)]
                /\ upc' = IF upc.k = Len(l) THEN At("efforts", 0)
                                            ELSE At("standard", upc.k + 1)
    /\ UNCHANGED <<payload, now, hist>>
    /\ UpsertFrame

\* The next INSERT of the segment_efforts block, or the block is skipped;
\* upsert_detail returns after the last one.
ExecEfforts ==
    /\ upc.phase = "efforts"
    /\ LET l == child_list(payload.segment_efforts)
       IN  IF l = <<>>
           THEN /\ upc' = At("done", 0)
                /\ UNCHANGED store
           ELSE /\ store' = [store EXCEPT
                               !.efforts = EffortsStep(@, payload.id, l,
                                                       upc.k + 1)]
                /\ upc' = IF upc.k + 1 = Len(l) THEN At("done", 0)
                                                ELSE At("efforts", upc.k + 1)
    /\ UNCHANGED <<payload, now, hist>>
    /\ UpsertFrame

\* The process dies, or the next statement raises: what is committed stays.
UpsertKilled ==
    /\ upc.phase \in {"parent", "metric", "standard", "efforts"}
    /\ upc' = At("killed", 0)
    /\ UNCHANGED <<store, payload, now, hist>>
    /\ UpsertFrame

NextUpsertSteps ==
    \/ CallUpsert
    \/ ExecParent
    \/ ExecSplitsMetric
    \/ ExecSplitsStandard
    \/ ExecEfforts
    \/ UpsertKilled

SpecUpsertSteps == InitUpsert /\ [][NextUpsertSteps]_vars

\* C17: in no state left by a crash or failure inside upsert_detail does the
\* store hold the new parent row of the activity while a delivered child list
\* is not yet the stored one (old, partial or empty).
C17_NewParentNeverWithoutItsChildren ==
    (upc.phase = "killed" /\ ParentRow(payload, now) \in store.parents) =>
        /\ child_list(payload.splits_metric) # <<>> =>
              DeliveredSplits(payload.id, payload.splits_metric.items) =
                  Children(store.metric, payload.id)
        /\ child_list(payload.splits_standard) # <<>> =>
              DeliveredSplits(payload.id, payload.splits_standard.items) =
                  Children(store.standard, payload.id)
        /\ child_list(payload.segment_efforts) # <<>> =>
              DeliveredEfforts(payload.id, payload.segment_efforts.items)
                  \subseteq Children(store.efforts, payload.id)

-----------------------------------------------------------------------------
(***************************************************************************)
(* SpecToken: the token refresh of pull.refresh_access_token and           *)
(* enrich.get_access_token against a server that may rotate the refresh    *)
(* token, with token_store.save_refresh_token able to raise.               *)
(***************************************************************************)
MaxTokens == 5               \* refresh tokens the server hands out
Callers == {"pull", "enrich"}

TokenAt(c, a) == [caller |-> c, at |-> a]

\* Whether the caller calls save_refresh_token for the response: pull.py:47
\* (if new_rt), enrich.py:125 (if new_refresh and new_refresh != refresh_token).
saves(c, resp, sent) ==
    IF c = "pull" THEN resp # NULL ELSE resp # NULL /\ resp # sent

TokenFrame ==
    /\ UNCHANGED <<backlog, i, processed, max_calls, sleep_floor, dry_run, epc,
                   raw, details, last, pause, restartVars, upsertVars>>
    /\ UNCHANGED <<rateVars, pullVars, catalogVars, reportVars, quotaVars,
                   clockVars, compactVars>>

InitToken ==
    /\ cols = {"id"}
    /\ shards = {}
    /\ CompactAtRest
    /\ budget = RateBudget(DefaultCushion, DefaultCushion)
    /\ EnrichAtRest

\* The POST to TOKEN_URL with the stored refresh token, which the server
\* accepts: the response carries no refresh token, the same one, or a new
\* one that replaces the old one at the server.
TokenGranted ==
    /\ tpc.at \in {"idle", "proceeds", "raised"}
    /\ tstore = tserver
    /\ \E c \in Callers :
          /\ tpc' = TokenAt(c, "responded")
          /\ \/ tresp' = NULL /\ tserver' = tserver
             \/ tresp' = tserver /\ tserver' = tserver
             \/ /\ tserver < MaxTokens
                /\ tresp' = tserver + 1
                /\ tserver' = tserver + 1
    /\ UNCHANGED tstore
    /\ TokenFrame

\* The server does not accept the stored refresh token: status 400, pull
\* exits (pull.py:35-43), raise_for_status raises in enrich (enrich.py:122).
TokenRefused ==
    /\ tpc.at \in {"idle", "proceeds", "raised"}
    /\ tstore # tserver
    /\ \E c \in Callers : tpc' = TokenAt(c, "raised")
    /\ tresp' = NULL
    /\ UNCHANGED <<tstore, tserver>>
    /\ TokenFrame

\* save_refresh_token(new) writes the store file.
TokenSaved ==
    /\ tpc.at = "responded"
    /\ saves(tpc.caller, tresp, tstore)
    /\ tstore' = tresp
    /\ tpc' = TokenAt(tpc.caller, "kept")
    /\ UNCHANGED <<tserver, tresp>>
    /\ TokenFrame

\* save_refresh_token raises (mkdir or write_text): pull lets the exception
\* out (pull.py:49), enrich swallows it (enrich.py:126-129).
TokenSaveRaises ==
    /\ tpc.at = "responded"
    /\ saves(tpc.caller, tresp, tstore)
    /\ tpc' = TokenAt(tpc.caller,
                      IF tpc.caller = "pull" THEN "raised" ELSE "kept")
    /\ UNCHANGED <<tstore, tserver, tresp>>
    /\ TokenFrame

\* Nothing to save.
TokenNotSaved ==
    /\ tpc.at = "responded"
    /\ ~saves(tpc.caller, tresp, tstore)
    /\ tpc' = TokenAt(tpc.caller, "kept")
    /\ UNCHANGED <<tstore, tserver, tresp>>
    /\ TokenFrame

\* The access token is returned and the run goes on with it.
TokenReturned ==
    /\ tpc.at = "kept"
    /\ tpc' = TokenAt(tpc.caller, "proceeds")
    /\ UNCHANGED <<tstore, tserver, tresp>>
    /\ TokenFrame

\* The response has no access_token: KeyError in pull (pull.py:50),
\* RuntimeError in enrich (enrich.py:131-132).
TokenNoAccess ==
    /\ tpc.at = "kept"
    /\ tpc' = TokenAt(tpc.caller, "raised")
    /\ UNCHANGED <<tstore, tserver, tresp>>
    /\ TokenFrame

NextToken ==
    \/ TokenGranted
    \/ TokenRefused
    \/ TokenSaved
    \/ TokenSaveRaises
    \/ TokenNotSaved
    \/ TokenReturned
    \/ TokenNoAccess

SpecToken == InitToken /\ [][NextToken]_vars

\* C22: whenever a run goes on with the access token of a refresh whose
\* response carried a refresh token, the credential store holds that
\* refresh token.
C22_RotatedTokenStoredBeforeUse ==
    (tpc.at = "proceeds" /\ tresp # NULL) => tstore = tresp

-----------------------------------------------------------------------------
(***************************************************************************)
(* SpecPull: the shard writes of pull.main, the normal pull and then the   *)
(* recent-window refresh, over runs and a wall clock that ticks in         *)
(* seconds at any moment.                                                  *)
(***************************************************************************)
MaxClock == 2                \* seconds the wall clock runs
MaxShardWrites == 4          \* non-empty shard writes in one behaviour
PullAthlete == {7}           \* the athlete of the token
PullBatches == SUBSET Ids    \* activities one fetch returns, {}: none

\* activities_{athlete_id}_{ts}.parquet, ts = strftime("%Y%m%d%H%M%S")
ShardName(ath, ts) == <<ath, ts>>

\* A writer that never reuses a name: the file is kept when one of that
\* name exists.
write_parquet_shard_exclusive(files, ath, ts, df) ==
    IF df = {} \/ \E f \in files : f.name = ShardName(ath, ts)
    THEN files
    ELSE files \cup {[name |-> ShardName(ath, ts), rows |-> df]}

\* write_parquet_shard, pull.py:194-201: nothing for an empty frame, else
\* df.to_parquet(path) creates the file or replaces the one of that name.
write_parquet_shard(files, ath, ts, df) ==
    IF df = {}
    THEN files
    ELSE { f \in files : f.name # ShardName(ath, ts) }
            \cup {[name |-> ShardName(ath, ts), rows |-> df]}

Count(df) == IF df = {} THEN 0 ELSE 1

PullFrame ==
    /\ UNCHANGED <<backlog, i, processed, max_calls, sleep_floor, dry_run, epc,
                   raw, details, last, pause, restartVars, upsertVars>>
    /\ UNCHANGED <<rateVars, tokenVars, catalogVars, reportVars, quotaVars,
                   clockVars, compactVars>>

InitPull ==
    /\ cols = {"id"}
    /\ shards = {}
    /\ CompactAtRest
    /\ budget = RateBudget(DefaultCushion, DefaultCushion)
    /\ EnrichAtRest

\* A second passes.
PullTick ==
    /\ pclock < MaxClock
    /\ pclock' = pclock + 1
    /\ UNCHANGED <<pfiles, pwrites, ppc>>
    /\ PullFrame

\* main, pull.py:289-298: fetch_activities and write_parquet_shard.
NormalPull ==
    /\ ppc = "idle"
    /\ \E ath \in PullAthlete, df \in PullBatches :
          /\ pwrites + Count(df) <= MaxShardWrites
          /\ pfiles' = write_parquet_shard(pfiles, ath, pclock, df)
          /\ pwrites' = pwrites + Count(df)
    /\ ppc' = "pulled"
    /\ UNCHANGED pclock
    /\ PullFrame

\* main, pull.py:308-311, and refresh_recent_kudos, pull.py:205-239: the
\* last days are fetched again and written as a shard of their own.
KudosRefresh ==
    /\ ppc = "pulled"
    /\ \E ath \in PullAthlete, df \in PullBatches :
          /\ pwrites + Count(df) <= MaxShardWrites
          /\ pfiles' = write_parquet_shard(pfiles, ath, pclock, df)
          /\ pwrites' = pwrites + Count(df)
    /\ ppc' = "idle"
    /\ UNCHANGED pclock
    /\ PullFrame

\* main, pull.py:308: --all or --refresh-kudos-days 0, no refresh.
NoKudosRefresh ==
    /\ ppc = "pulled"
    /\ ppc' = "idle"
    /\ UNCHANGED <<pfiles, pclock, pwrites>>
    /\ PullFrame

NextPull ==
    \/ PullTick
    \/ NormalPull
    \/ KudosRefresh
    \/ NoKudosRefresh

SpecPull == InitPull /\ [][NextPull]_vars

\* C23: no step removes or changes a shard file that exists, and the number
\* of shard files is the number of non-empty shard writes.
C23_ShardsAppendOnly ==
    /\ [][pfiles \subseteq pfiles']_vars
    /\ [](Cardinality(pfiles) = pwrites)

-----------------------------------------------------------------------------
(***************************************************************************)
(* SpecSource: the candidate source of select_backlog_ids after pulls,     *)
(* compactions and the compatibility migration.                            *)
(***************************************************************************)
\* The relations of the warehouse database: the table and the public view of
\* compact.py:174-189, the view of migrate_activities_view.py:10, the detail
\* tables of ensure_schema.
Catalog(g, cv) ==
    (IF g.exists
     THEN {[schema |-> "gold", name |-> "strava_activities", kind |-> "table"],
           [schema |-> "main", name |-> "strava_activities", kind |-> "view"]}
     ELSE {})
    \cup (IF cv
          THEN {[schema |-> "main", name |-> "activities", kind |-> "view"]}
          ELSE {})
    \cup {[schema |-> "main", name |-> "activity_details", kind |-> "table"]}

\* exists(name), enrich.py:248-251: duckdb_tables() lists base tables.
exists(cat, name) == \E e \in cat : e.kind = "table" /\ e.name = name

\* enrich.py:253 and 281-302: the source the candidates are read from.
backlog_source(cat, files) ==
    IF exists(cat, "activities") THEN "activities"
    ELSE IF files # {} THEN "parquet"
    ELSE "none"

SourceFrame ==
    /\ UNCHANGED <<backlog, i, processed, max_calls, sleep_floor, dry_run, epc,
                   raw, details, last, pause, restartVars, upsertVars>>
    /\ UNCHANGED <<rateVars, tokenVars, pullVars, reportVars, quotaVars,
                   clockVars, compactVars>>

\* migrate_activities_view.main: CREATE OR REPLACE VIEW activities over the
\* public view, which must exist.
MigrateView ==
    /\ gold.exists
    /\ compat' = TRUE
    /\ UNCHANGED source
    /\ SourceFrame

\* select_backlog_ids without explicit ids picks its source.
SelectSource ==
    /\ source' = [from |-> backlog_source(Catalog(gold, compat), shards),
                  canonical |-> gold.exists,
                  compat |-> compat]
    /\ UNCHANGED compat
    /\ SourceFrame

NextSource ==
    \/ LandShard
    \/ CompactNoFault
    \/ MigrateView
    \/ SelectSource

SpecSource == InitCompact /\ [][NextSource]_vars

\* C24: a backlog selected while the canonical table of compaction, its
\* public view and the view activities exist takes its candidates from the
\* canonical table, not from the raw shards.
C24_CanonicalTablePreferred ==
    (source.canonical /\ source.compat) => source.from = "activities"

-----------------------------------------------------------------------------
(***************************************************************************)
(* SpecRank: compact.main without faults on key groups of up to two rows   *)
(* whose shards carry every column the ordering looks at.                  *)
(***************************************************************************)
RankSchema ==
    {"id", "updated_at", "resource_state", "ingestion_ts", "summary_polyline"}

\* The rows of activity 42 in such shards.
RankRows == { r \in RowDomain(RankSchema) : r.id = 42 /\ r.kudos_count = 0 }

InitRank ==
    /\ cols = RankSchema
    /\ shards \in { {r, t} : r \in RankRows, t \in RankRows }
    /\ CompactAtRest
    /\ budget = RateBudget(DefaultCushion, DefaultCushion)
    /\ EnrichAtRest

NextRank ==
    \/ CompactNoFault

SpecRank == InitRank /\ [][NextRank]_vars

\* The chain as declared: freshness, completeness (resource_state),
\* ingestion timestamp, shard identity, each descending.
DeclaredChain(r) ==
    <<Coalesce(r.updated_at, Epoch), r.resource_state,
      Coalesce(r.ingestion_ts, Epoch), r.source_file>>

\* C25: the row compaction keeps of a key group is first under the chain
\* freshness, completeness, ingestion timestamp, shard identity (all
\* descending) and nothing else: no row of the group sorts before it under
\* that chain, so rows tied on the first three are resolved by the shard.
C25_RankedByDeclaredChainOnly ==
    runs >= 1 =>
        \A k \in silver.rows :
            \A r \in DeclaredGroup(k) :
                ~SortsBefore(DeclaredChain(r), DeclaredChain(k))

-----------------------------------------------------------------------------
(***************************************************************************)
(* SpecKey: compact.main without faults on shards with and without the     *)
(* columns athlete_id and id.                                              *)
(***************************************************************************)
KeySchemas == { {"athlete_id", "id"}, {"id"}, {"athlete_id"}, {} }

InitKey ==
    /\ cols \in KeySchemas
    /\ shards \in SetsUpTo(RowDomain(cols), MaxRows)
    /\ CompactAtRest
    /\ budget = RateBudget(DefaultCushion, DefaultCushion)
    /\ EnrichAtRest

NextKey ==
    \/ CompactNoFault

SpecKey == InitKey /\ [][NextKey]_vars

\* The key by the stated priority over the columns the shards have.
PriorityKey(r) ==
    IF {"athlete_id", "id"} \subseteq cols THEN <<r.athlete_id, r.id>>
    ELSE IF "id" \in cols THEN <<r.id>>
    ELSE <<r.source_file>>

\* C26: a compaction keeps exactly one row for every value of the key chosen
\* by priority, (athlete_id, id), else id, else source_file, and with the
\* last-resort key the run still ends with the canonical directory and the
\* gold table written.
C26_KeyByPriority ==
    runs >= 1 =>
        /\ silver.exists
        /\ gold = silver
        /\ silver.rows \subseteq shards
        /\ \A r \in shards :
              Cardinality({ o \in silver.rows :
                              PriorityKey(o) = PriorityKey(r) }) = 1

\* C26 witness: shards without an id column, three rows in two files; the
\* run has completed and kept one row per file.
C26_Witness ==
    /\ runs >= 1
    /\ "id" \notin cols
    /\ Cardinality(shards) = 3
    /\ { r.source_file : r \in shards } = {1, 2}
    /\ Cardinality(silver.rows) = 2
    /\ gold = silver

-----------------------------------------------------------------------------
(***************************************************************************)
(* SpecReport: a RateBudget fed well-formed reports: both headers present, *)
(* "limit15,limitday" and "usage15,usageday" in decimal.                   *)
(***************************************************************************)
ReportedLimits == {2, 3}
ReportedUsages == {0, 1, 2}

ReportFrame ==
    /\ UNCHANGED <<backlog, i, processed, max_calls, sleep_floor, dry_run, epc,
                   raw, details, last, pause, restartVars, upsertVars>>
    /\ UNCHANGED <<tokenVars, pullVars, catalogVars, quotaVars, clockVars,
                   compactVars>>

\* A response with both headers arrives and run() hands them to the budget
\* (line 555).
IngestReport ==
    /\ \E l15 \in ReportedLimits, lday \in ReportedLimits,
          u15 \in ReportedUsages, uday \in ReportedUsages :
          /\ budget' = update_from_headers(budget, HeaderOf(l15, lday),
                                           HeaderOf(u15, uday))
          /\ reported' = [limit_15 |-> l15, limit_day |-> lday,
                          used_15 |-> u15, used_day |-> uday]
    /\ ReportFrame

NextReport ==
    \/ IngestReport

SpecReport == InitRate /\ [][NextReport]_vars

\* C27: after every well-formed report the budget holds the reported limits
\* and the reported usage, a usage of 0 in both windows included.
C27_BudgetEqualsReport ==
    reported # NoReport =>
        /\ budget.limit_15 = reported.limit_15
        /\ budget.limit_day = reported.limit_day
        /\ budget.used_15 = reported.used_15
        /\ budget.used_day = reported.used_day

-----------------------------------------------------------------------------
(***************************************************************************)
(* SpecPace: the fetch loop of run() against a server that keeps the two   *)
(* usage windows itself, under a wall clock.  The run is the only caller:  *)
(* the server starts with no usage, counts every call it grants, reports   *)
(* its limits and usage in the headers of every answer, and answers 429    *)
(* when a window is full.  The 15-minute window starts anew at every       *)
(* quarter hour and the daily window at midnight UTC.                      *)
(***************************************************************************)
MaxQueue == 3                \* longest backlog of a paced run
MaxDetailCalls == 4          \* detail calls followed per run
JitterSeconds == 3
StartTimes == {0, 899, 3599, 83700, 86399}
Elapsed == {0, 1}
QuotaLimits == { [limit_15 |-> 1, limit_day |-> 2],
                 [limit_15 |-> 2, limit_day |-> 3] }

\* The fields of a datetime that is clock seconds after midnight of day 0.
Minute(t) == (t \div 60) % 60
Hour(t) == (t \div 3600) % 24
Day(t) == t \div 86400
DateTime(day, hour, minute, second) ==
    ((day * 24 + hour) * 60 + minute) * 60 + second

\* next_quarter_hour, lines 44-54 (the mutant leaves the day as it is when
\* the hour rolls over to 24).
next_quarter_hour_same_day(t) ==
    LET qmins  == ((Minute(t) \div 15) + 1) * 15
        hour   == Hour(t) + (IF qmins = 60 THEN 1 ELSE 0)
        minute == IF qmins = 60 THEN 0 ELSE qmins
    IN  IF hour = 24 THEN DateTime(Day(t), 0, minute, 0)
        ELSE DateTime(Day(t), hour, minute, 0)
next_quarter_hour(t) ==
    LET qmins  == ((Minute(t) \div 15) + 1) * 15
        hour   == Hour(t) + (IF qmins = 60 THEN 1 ELSE 0)
        minute == IF qmins = 60 THEN 0 ELSE qmins
    IN  IF hour = 24 THEN DateTime(Day(t) + 1, 0, minute, 0)
        ELSE DateTime(Day(t), hour, minute, 0)

\* sleep_until, lines 57-61: the time at which time.sleep returns when
\* utc_now() read t.
sleep_until(dt, t) == t + Max(0, dt - t) + JitterSeconds

\* The server opens fresh windows when the clock has left the ones it
\* counted in.
Roll(s, t) ==
    [s EXCEPT !.used_15 = IF t \div 900 # s.window THEN 0 ELSE @,
              !.used_day = IF Day(t) # s.day THEN 0 ELSE @,
              !.window = t \div 900,
              !.day = Day(t)]
Granted(s) == s.used_15 < s.limit_15 /\ s.used_day < s.limit_day

InitPace ==
    /\ cols = {"id"}
    /\ shards = {}
    /\ CompactAtRest
    /\ \E c15 \in Cushions, cday \in Cushions : budget = RateBudget(c15, cday)
    /\ activities = {}
    /\ eruns = 1
    /\ pending = {}
    /\ \E n \in 1..MaxQueue : backlog = [k \in 1..n |-> k]
    /\ i = 0
    /\ processed = 0
    /\ max_calls \in {NULL} \cup (1..MaxQueue)
    /\ sleep_floor \in SleepFloors
    /\ dry_run = FALSE
    /\ epc = "loop"
    /\ raw = {}
    /\ details = {}
    /\ last = NoCall
    /\ pause = NoPause
    /\ UpsertAtRest
    /\ TokenAtRest
    /\ PullAtRest
    /\ CatalogAtRest
    /\ reported = NoReport
    /\ clock \in StartTimes
    /\ \E q \in QuotaLimits :
          server = [limit_15 |-> q.limit_15, limit_day |-> q.limit_day,
                    used_15 |-> 0, used_day |-> 0,
                    window |-> clock \div 900, day |-> Day(clock)]
    /\ calls = 0
    /\ boundary = NoBoundary

PaceFrame ==
    /\ UNCHANGED <<restartVars, upsertVars, tokenVars, pullVars, catalogVars,
                   reportVars, compactVars>>

\* Lines 546-552: the loop test passes, the budget is consulted, and the
\* loop sleeps to the next quarter hour when it signals exhaustion.
PaceIteration ==
    /\ epc = "loop"
    /\ LoopContinues
    /\ IF would_exceed_next_call(budget)
         THEN /\ pause' = Quarter
              /\ \E e \in Elapsed :
                    clock' = sleep_until(next_quarter_hour(clock), clock + e)
         ELSE /\ pause' = NoPause
              /\ clock' = clock
    /\ epc' = "call"
    /\ UNCHANGED <<budget, backlog, i, processed, max_calls, sleep_floor,
                   dry_run, raw, details, last, server, calls, boundary>>
    /\ PaceFrame

\* Lines 554-555: the server grants the call, counts it and reports.
PaceFetchOk ==
    /\ epc = "call"
    /\ calls < MaxDetailCalls
    /\ Granted(Roll(server, clock))
    /\ server' = [Roll(server, clock) EXCEPT !.used_15 = @ + 1,
                                             !.used_day = @ + 1]
    /\ budget' = update_from_headers(budget,
                     HeaderOf(server'.limit_15, server'.limit_day),
                     HeaderOf(server'.used_15, server'.used_day))
    /\ last' = [aid |-> aid, status |-> 200, delay |-> NULL]
    /\ calls' = calls + 1
    /\ clock' = clock + 1
    /\ boundary' = NoBoundary
    /\ epc' = "write"
    /\ UNCHANGED <<backlog, i, processed, max_calls, sleep_floor, dry_run,
                   raw, details, pause>>
    /\ PaceFrame

\* Lines 554-570: a window is full, the server answers 429 and the loop
\* sleeps: the stated seconds, or to the next quarter hour when the answer
\* states none.
PaceFetchRateLimited ==
    /\ epc = "call"
    /\ calls < MaxDetailCalls
    /\ ~Granted(Roll(server, clock))
    /\ server' = Roll(server, clock)
    /\ budget' = update_from_headers(budget,
                     HeaderOf(server'.limit_15, server'.limit_day),
                     HeaderOf(server'.used_15, server'.used_day))
    /\ calls' = calls + 1
    /\ \E ra \in ServerRetry :
          /\ last' = [aid |-> aid, status |-> 429, delay |-> ra.delay]
          /\ pause' = Backoff(ra.text, sleep_floor)
          /\ IF pause'.kind = "quarter"
               THEN /\ boundary' = [at |-> clock + 1,
                                    until |-> next_quarter_hour(clock + 1)]
                    /\ \E e \in Elapsed :
                          clock' = sleep_until(next_quarter_hour(clock + 1),
                                               clock + 1 + e)
               ELSE /\ boundary' = NoBoundary
                    /\ clock' = clock + 1 + pause'.secs
    /\ i' = RetryCursor(i)
    /\ epc' = "loop"
    /\ UNCHANGED <<backlog, processed, max_calls, sleep_floor, dry_run, raw,
                   details>>
    /\ PaceFrame

NextPace ==
    \/ PaceIteration
    \/ LoopExit
    \/ PaceFetchOk
    \/ PaceFetchRateLimited
    \/ WriteDetailJson
    \/ UpsertDetail

SpecPace == InitPace /\ [][NextPace]_vars

\* C28: with a daily cushion c and the run as the only caller, no detail
\* call brings the server's daily usage above limit_day - c.
C28_DailyCushionStaysUnused ==
    server.used_day <= server.limit_day - budget.cushion_day

\* C29: with a hard cap N the run issues at most N detail calls, 429 answers
\* included.
C29_CapBoundsDetailCalls ==
    max_calls # NULL => calls <= max_calls

\* The first quarter-hour boundary after second t.
NextBoundary(t) == ((t \div 900) + 1) * 900

\* C30: after a 429 that states no retry delay, the next detail call is not
\* issued before the next quarter-hour boundary has passed, and it is for
\* the identifier that was answered 429.
C30_RetryAfterQuarterHourSameId ==
    (epc = "call" /\ boundary # NoBoundary) =>
        /\ boundary.until = NextBoundary(boundary.at)
        /\ clock >= boundary.until
        /\ last.status = 429
        /\ aid = last.aid

\* A 429 without a delay was answered just before midnight, and the retry of
\* the same identifier is about to be issued on the next day.
C30_Witness ==
    /\ epc = "call"
    /\ boundary # NoBoundary
    /\ Day(boundary.at) = 0
    /\ Day(clock) = 1
    /\ aid = last.aid

-----------------------------------------------------------------------------
(***************************************************************************)
(* SpecPlan: enrich.run from its start, with the token exchange of         *)
(* get_access_token spelled out: the backlog is selected from the raw      *)
(* shards (no table named activities exists), the token is asked for, a    *)
(* dry run returns, any other run enters the fetch loop.                   *)
(***************************************************************************)
InitPlan ==
    /\ cols = {"id"}
    /\ shards = {}
    /\ CompactAtRest
    /\ budget = RateBudget(DefaultCushion, DefaultCushion)
    /\ activities \in SetsUpTo(Candidates(Ids, StartDates), MaxBacklog)
    /\ details \in SUBSET Ids
    /\ eruns = 1
    /\ pending = {}
    /\ backlog = <<>>
    /\ i = 0
    /\ processed = 0
    /\ max_calls = NULL
    /\ sleep_floor = DefaultSleepFloor
    /\ dry_run \in BOOLEAN
    /\ epc = "init"
    /\ raw = {}
    /\ last = NoCall
    /\ pause = NoPause
    /\ UpsertAtRest
    /\ tstore = 1
    /\ tserver \in {1, 2}
    /\ tpc = NoRefresh
    /\ tresp = NULL
    /\ pfiles = IF activities = {} THEN {}
                ELSE {[name |-> ShardName(7, 0),
                       rows |-> { r.id : r \in activities }]}
    /\ pclock = 0
    /\ pwrites = 0
    /\ ppc = "idle"
    /\ CatalogAtRest
    /\ ServerAtRest

PlanFrame ==
    /\ UNCHANGED <<rateVars, restartVars, upsertVars, pullVars, reportVars,
                   quotaVars, clockVars, compactVars>>
    /\ UNCHANGED <<i, processed, max_calls, sleep_floor, dry_run, raw,
                   details, last, pause>>

\* Lines 521-528 with select_backlog_ids lines 248-302: no source gives the
\* empty list; an empty backlog ends the run before any token is asked for
\* (the mutant goes on to the token).
PlanSelectThenToken ==
    /\ epc = "init"
    /\ LET src == backlog_source(Catalog(gold, compat), pfiles)
       IN  /\ source' = [from |-> src, canonical |-> gold.exists,
                         compat |-> compat]
           /\ \E b \in (IF src = "none" THEN {<<>>}
                        ELSE select_backlog_ids(activities, details)) :
                 /\ backlog' = b
                 /\ epc' = "token"
    /\ UNCHANGED <<tokenVars, compat>>
    /\ PlanFrame
PlanSelect ==
    /\ epc = "init"
    /\ LET src == backlog_source(Catalog(gold, compat), pfiles)
       IN  /\ source' = [from |-> src, canonical |-> gold.exists,
                         compat |-> compat]
           /\ \E b \in (IF src = "none" THEN {<<>>}
                        ELSE select_backlog_ids(activities, details)) :
                 /\ backlog' = b
                 /\ epc' = IF b = <<>> THEN "done" ELSE "token"
    /\ UNCHANGED <<tokenVars, compat>>
    /\ PlanFrame

\* get_access_token, lines 110-122: the POST to TOKEN_URL is accepted; the
\* response carries no refresh token, the same one, or a new one.
PlanTokenGranted ==
    /\ epc = "token"
    /\ tpc.at = "idle"
    /\ tstore = tserver
    /\ tpc' = TokenAt("enrich", "responded")
    /\ \/ tresp' = NULL /\ tserver' = tserver
       \/ tresp' = tserver /\ tserver' = tserver
       \/ /\ tserver < MaxTokens
          /\ tresp' = tserver + 1
          /\ tserver' = tserver + 1
    /\ UNCHANGED <<tstore, backlog, epc, catalogVars>>
    /\ PlanFrame

\* The POST is refused: raise_for_status raises out of run() (line 122).
PlanTokenRefused ==
    /\ epc = "token"
    /\ tpc.at = "idle"
    /\ tstore # tserver
    /\ tpc' = TokenAt("enrich", "raised")
    /\ tresp' = NULL
    /\ epc' = "raised"
    /\ UNCHANGED <<tstore, tserver, backlog, catalogVars>>
    /\ PlanFrame

\* Lines 130-133 and 530-539: the access token is returned; a dry run
\* prints its plan and returns, any other run enters the loop.
PlanTokenReturned ==
    /\ epc = "token"
    /\ tpc.at = "kept"
    /\ tpc' = TokenAt("enrich", "proceeds")
    /\ epc' = IF dry_run THEN "done" ELSE "loop"
    /\ UNCHANGED <<tstore, tserver, tresp, backlog, catalogVars>>
    /\ PlanFrame

\* Lines 130-132: the response has no access_token, RuntimeError.
PlanTokenNoAccess ==
    /\ epc = "token"
    /\ tpc.at = "kept"
    /\ tpc' = TokenAt("enrich", "raised")
    /\ epc' = "raised"
    /\ UNCHANGED <<tstore, tserver, tresp, backlog, catalogVars>>
    /\ PlanFrame

NextPlan ==
    \/ PlanSelect
    \/ PlanTokenGranted
    \/ PlanTokenRefused
    \/ TokenSaved
    \/ TokenSaveRaises
    \/ TokenNotSaved
    \/ PlanTokenReturned
    \/ PlanTokenNoAccess
    \/ LoopIteration
    \/ LoopExit
    \/ FetchOk
    \/ WriteDetailJson
    \/ UpsertDetail

SpecPlan == InitPlan /\ [][NextPlan]_vars

NothingToEnrich ==
    \/ backlog_source(Catalog(gold, compat), pfiles) = "none"
    \/ CandidateIds \subseteq details

C32_DryRunOnlyPlans ==
    /\ []( dry_run => (tpc = NoRefresh /\ last = NoCall) )
    /\ [][ dry_run => UNCHANGED <<tstore, details, upsertVars>> ]_vars

-----------------------------------------------------------------------------
(***************************************************************************)
(* SpecLive: a run of enrich.run that is not a dry run, with a server that *)
(* answers every detail call with a payload or with 429 and with no other  *)
(* failure.  The run is one sequential process that takes its next step    *)
(* whenever it has one.                                                    *)
(***************************************************************************)
InitLive ==
    /\ cols = {"id"}
    /\ shards = {}
    /\ CompactAtRest
    /\ \E c15 \in Cushions, cday \in Cushions : budget = RateBudget(c15, cday)
    /\ activities \in SetsUpTo(Candidates(Ids, {1}), MaxBacklog)
    /\ eruns = 1
    /\ pending = {}
    /\ backlog = <<>>
    /\ i = 0
    /\ processed = 0
    /\ max_calls \in {NULL} \cup (0..MaxBacklog)
    /\ sleep_floor = DefaultSleepFloor
    /\ dry_run = FALSE
    /\ epc = "init"
    /\ raw = {}
    /\ details = {}
    /\ last = NoCall
    /\ pause = NoPause
    /\ UpsertAtRest
    /\ ServiceAtRest

NextLive ==
    \/ EnrichStart
    \/ GetAccessToken
    \/ LoopIteration
    \/ LoopExit
    \/ FetchOk
    \/ FetchRateLimited
    \/ WriteDetailJson
    \/ UpsertDetail

SpecLive == InitLive /\ [][NextLive]_vars /\ WF_vars(NextLive)

Min(a, b) == IF a <= b THEN a ELSE b
Cap == IF max_calls = NULL THEN Len(backlog) ELSE max_calls
RunCompleted ==
    /\ epc = "done"
    /\ processed = Min(Len(backlog), Cap)
    /\ details = { backlog[k] : k \in 1..processed }
    /\ raw = details

\* C36: unless the server answers 429 again and again without end, the run
\* comes to its end with processed = min(len(backlog), max_calls) and the
\* first that many identifiers of the backlog persisted, each persisted when
\* its turn in the backlog came.
C36_RunTerminatesWithPrefixPersisted ==
    /\ ([]<><<FetchRateLimited>>_vars) \/ <>[]RunCompleted
    /\ [][ details' # details =>
              details' = details \cup {backlog[processed + 1]} ]_vars

\* C36 witness: a backlog of two, a cap of one: the run has ended with the
\* first identifier persisted and the second left.
C36_Witness ==
    /\ epc = "done"
    /\ Len(backlog) = 2
    /\ backlog[1] # backlog[2]
    /\ max_calls = 1
    /\ processed = 1
    /\ details = {backlog[1]}

====
